---- MODULE Spec2Model ----
(***************************************************************************)
(* Model of the njskihaus-api conditions pipeline.                         *)
(*                                                                         *)
(*  - the per-resort pipeline   (njskihaus-api/lib/scrapers.js)            *)
(*  - the SnoCountry pipeline   (lib/scrapers.js, first part)              *)
(*  - the storage gateway       (lib/scrapers.js, storage.js part)         *)
(*  - the /api/scrape trigger   (lib/test-scrapers.js, second part)        *)
(*                                                                         *)
(* JavaScript values are tagged records, objects are functions from keys   *)
(* to values; a key missing from the domain is JS `undefined`.             *)
(***************************************************************************)
EXTENDS Integers, Sequences, FiniteSets, TLC

VARIABLES
    variant,    \* which lib/scrapers module is deployed: "resort" or "sno"
    window,     \* which stretch of ALL_SCRAPERS is modelled: "first" or "last"
    clock,      \* wall clock: value the next Date.now() / new Date() returns
    hpc,        \* position of the /api/scrape handler
    pc,         \* pc[i]: position of the i-th launched unit (adapter or feed)
    settled,    \* settled[i]: settlement of the i-th promise (or Pending)
    got,        \* got[i]: what the upstream of unit i delivered (history)
    fetches,    \* fetches[i]: calls of unit i and fetches it issued (history)
    timer,      \* timer[i]: is the 15 s abort timer of unit i's fetch pending
    start,      \* Date.now() at the entry of runAllScrapers (or NoValue)
    snapshot,   \* value runAllScrapers resolved with (or NoValue)
    store,      \* value held by the storage backend (or NoValue)
    previous,   \* value the backend held when the request arrived (history)
    request,    \* the trigger request and CRON_SECRET, where a run fixes them
    writes,     \* number of backend writes performed by this invocation
    response,   \* HTTP response of the trigger handler (or NoValue)
    qresponse,  \* last response of the /api/conditions handler (or NoValue)
    debug,      \* the run of lib/test-scrapers.js: argument, position, selection
    runs,       \* runs[k]: the k-th of several overlapping trigger invocations
    backend,    \* the storage backend in use and the expiry of its entry
    call        \* one call of a normalising function: its argument, its result

vars == <<variant, window, clock, hpc, pc, settled, got, fetches, timer, start,
          snapshot, store, previous, request, writes, response, qresponse, debug, runs,
          backend, call>>

-----------------------------------------------------------------------------
(* Bounds of the model *)

NumScrapers == 2    \* adapters of ALL_SCRAPERS that are modelled (a stretch)
NumFeeds    == 2    \* state feeds of `states` that are modelled (a prefix)
MaxFeedLen  == 2    \* most records one state feed returns

-----------------------------------------------------------------------------
(* JavaScript values *)

JUndef == [t |-> "undef"]
JNull  == [t |-> "null"]
JNaN   == [t |-> "nan"]
\* the decimal number m / 10^e
JDec(m, e) == [t |-> "num", v |-> m, e |-> e]
JNum(n) == JDec(n, 0)
\* a string given by its characters
JStr(s) == [t |-> "str", s |-> s]
\* a string given as `pre` blanks, its words (a tuple), `post` blanks
JPad(pre, core, post) == [t |-> "str", pre |-> pre, core |-> core, post |-> post]
JText(word) == JPad(0, <<word>>, 0)
JObj(f) == [t |-> "obj", f |-> f]
JArr(a) == [t |-> "arr", a |-> a]

NoValue == [t |-> "none"]

\* o.k for an object modelled as a function
Get(o, k) == IF k \in DOMAIN o THEN o[k] ELSE JUndef

\* JS truthiness
Truthy(v) ==
    CASE v.t = "undef" -> FALSE
      [] v.t = "null"  -> FALSE
      [] v.t = "nan"   -> FALSE
      [] v.t = "num"   -> v.v # 0
      [] v.t = "str"   -> IF "s" \in DOMAIN v THEN Len(v.s) > 0
                          ELSE v.pre + v.post > 0 \/ v.core # <<>>
      [] OTHER         -> TRUE

\* a || b
Or(a, b) == IF Truthy(a) THEN a ELSE b

\* v != null  (loose inequality: false for null and undefined only)
NotNullish(v) == v.t # "null" /\ v.t # "undef"

Digits == <<"0", "1", "2", "3", "4", "5", "6", "7", "8", "9">>
IsDigit(c) == \E d \in 1..10 : Digits[d] = c
DigitVal(c) == (CHOOSE d \in 1..10 : Digits[d] = c) - 1

IsNumChar(c) == IsDigit(c) \/ c = "."

RECURSIVE StripNonNumeric(_)
\* s.replace(/[^0-9.]/g, '')
StripNonNumeric(s) ==
    IF s = <<>> THEN <<>>
    ELSE (IF IsNumChar(Head(s)) THEN <<Head(s)>> ELSE <<>>) \o StripNonNumeric(Tail(s))

RECURSIVE StripNonDigits(_)
\* s.replace(/[^0-9]/g, '')
StripNonDigits(s) ==
    IF s = <<>> THEN <<>>
    ELSE (IF IsDigit(Head(s)) THEN <<Head(s)>> ELSE <<>>) \o StripNonDigits(Tail(s))

RECURSIVE DigitPrefix(_)
\* longest prefix of s made of digits
DigitPrefix(s) ==
    IF s = <<>> \/ ~IsDigit(Head(s)) THEN <<>>
    ELSE <<Head(s)>> \o DigitPrefix(Tail(s))

RECURSIVE DigitsVal(_)
DigitsVal(s) ==
    IF s = <<>> THEN 0
    ELSE DigitsVal(SubSeq(s, 1, Len(s) - 1)) * 10 + DigitVal(s[Len(s)])

RECURSIVE Normal(_, _)
\* m / 10^e with the trailing zeros of the fraction removed
Normal(m, e) == IF e > 0 /\ m % 10 = 0 THEN Normal(m \div 10, e - 1) ELSE JDec(m, e)

RECURSIVE SkipBlanks(_)
\* parseFloat and parseInt skip leading white space
SkipBlanks(s) == IF s # <<>> /\ Head(s) = " " THEN SkipBlanks(Tail(s)) ELSE s

\* the sign a numeric string starts with, and the string behind it
SignOf(s) == IF s # <<>> /\ Head(s) = "-" THEN -1 ELSE 1
Unsigned(s) == IF s # <<>> /\ Head(s) \in {"-", "+"} THEN Tail(s) ELSE s

\* parseFloat of a character string: blanks, sign, digits, fraction
ParseFloatChars(s) ==
    LET t    == SkipBlanks(s)
        u    == Unsigned(t)
        ip   == DigitPrefix(u)
        rest == SubSeq(u, Len(ip) + 1, Len(u))
        fp   == IF rest # <<>> /\ Head(rest) = "." THEN DigitPrefix(Tail(rest)) ELSE <<>>
    IN  IF ip = <<>> /\ fp = <<>> THEN JNaN
        ELSE LET n == Normal(DigitsVal(ip \o fp), Len(fp))
             IN  JDec(SignOf(t) * n.v, n.e)

\* parseInt(s, 10) of a character string: blanks, sign, digits
ParseIntChars(s) ==
    LET t  == SkipBlanks(s)
        ip == DigitPrefix(Unsigned(t))
    IN  IF ip = <<>> THEN JNaN ELSE JNum(SignOf(t) * DigitsVal(ip))

RECURSIVE Pow10(_)
Pow10(n) == IF n = 0 THEN 1 ELSE 10 * Pow10(n - 1)

\* 10^e for the decimal d: d.v <= k * Scale(d) states d <= k
Scale(d) == Pow10(d.e)

RECURSIVE NatChars(_)
NatChars(n) == IF n < 10 THEN <<Digits[n + 1]>> ELSE NatChars(n \div 10) \o <<Digits[(n % 10) + 1]>>

Abs(n) == IF n < 0 THEN -n ELSE n

RECURSIVE FracChars(_, _)
\* the e digits of the fraction f / 10^e
FracChars(f, e) ==
    IF e = 0 THEN <<>> ELSE FracChars(f \div 10, e - 1) \o <<Digits[(f % 10) + 1]>>

\* String(n) of a decimal
NumChars(n) ==
    (IF n.v < 0 THEN <<"-">> ELSE <<>>)
        \o NatChars(Abs(n.v) \div Scale(n))
        \o (IF n.e = 0 THEN <<>> ELSE <<".">> \o FracChars(Abs(n.v) % Scale(n), n.e))

\* String(v) for the values the adapters pass to the parsing helpers
ToChars(v) ==
    CASE v.t = "str" /\ "s" \in DOMAIN v -> v.s
      [] v.t = "num" -> NumChars(v)
      [] OTHER -> <<"?">>

parseInches(str) ==
    IF ~Truthy(str) THEN JNull
    ELSE LET n == ParseFloatChars(StripNonNumeric(ToChars(str)))
         IN  IF n.t = "nan" THEN JNull ELSE n

parseInt2(str) ==
    IF ~Truthy(str) THEN JNull
    ELSE LET n == ParseIntChars(StripNonDigits(ToChars(str)))
         IN  IF n.t = "nan" THEN JNull ELSE n

RECURSIVE DropBlanksAtEnd(_)
DropBlanksAtEnd(s) ==
    IF s # <<>> /\ s[Len(s)] = " " THEN DropBlanksAtEnd(SubSeq(s, 1, Len(s) - 1)) ELSE s

\* white space around a numeric string does not count
StripBlanks(s) == DropBlanksAtEnd(SkipBlanks(s))

\* the number a value is coerced to by `*` and `/`
ToNumber(v) ==
    CASE v.t = "num"  -> v
      [] v.t = "null" -> JNum(0)
      [] v.t = "str" /\ "s" \in DOMAIN v ->
            LET t == StripBlanks(v.s)
                u == Unsigned(t)
            IN  IF t = <<>> THEN JNum(0)
                ELSE IF /\ \A n \in 1..Len(u) : IsNumChar(u[n])
                        /\ Cardinality({n \in 1..Len(u) : u[n] = "."}) <= 1
                     THEN ParseFloatChars(t) ELSE JNaN
      [] v.t = "str" /\ "core" \in DOMAIN v -> IF v.core = <<>> THEN JNum(0) ELSE JNaN
      [] OTHER -> JNaN

\* v * 2.54, in exact decimals
Times254(v) ==
    LET n == ToNumber(v)
    IN  IF n.t = "nan" THEN JNaN ELSE Normal(n.v * 254, n.e + 2)

\* Math.round(cm / 2.54): the quotient (100 m) / (254 * 10^e) rounded half up
cmToIn(cm) ==
    IF ~NotNullish(cm) THEN JNull
    ELSE LET n == ToNumber(cm)
         IN  IF n.t = "nan" THEN JNaN
             ELSE JNum((200 * n.v + 254 * Scale(n)) \div (508 * Scale(n)))

\* Trim that leaves the surrounding whitespace in place
TrimNoop(v) == v

\* s.trim()
Trim(v) == IF v.t = "str" /\ "pre" \in DOMAIN v THEN JPad(0, v.core, 0) ELSE v

\* new Date().toISOString() / Date.now(): the wall clock as a number
now == JNum(clock)

-----------------------------------------------------------------------------
(* Promises *)

Pending      == [t |-> "pending"]
Fulfilled(v) == [t |-> "fulfilled", value |-> v]
Rejected(r)  == [t |-> "rejected", reason |-> r]

-----------------------------------------------------------------------------
(* Per-resort adapters: njskihaus-api/lib/scrapers.js *)

\* the first and the last adapters of ALL_SCRAPERS, in the order of the source
Roster == <<"mountainCreek", "killington", "stowe", "stratton">>
RosterEnd == <<"tremblant", "leMassif", "montSteAnne">>
\* the adapters of the modelled stretch of ALL_SCRAPERS
ALL_SCRAPERS == SubSeq(IF window = "first" THEN Roster ELSE RosterEnd, 1, NumScrapers)

\* the `name:` constant of each adapter
AdapterName(fn) ==
    CASE fn = "mountainCreek" -> JPad(0, <<"MOUNTAIN", "CREEK">>, 0)
      [] fn = "killington"    -> JText("KILLINGTON")
      [] fn = "stowe"         -> JText("STOWE")
      [] fn = "stratton"      -> JText("STRATTON")
      [] fn = "tremblant"     -> JText("MONT-TREMBLANT")
      [] fn = "leMassif"      -> JPad(0, <<"LE", "MASSIF">>, 0)
      [] fn = "montSteAnne"   -> JText("MONT-STE-ANNE")

\* the `url` constant of each adapter
Url(fn) ==
    CASE fn = "mountainCreek" -> JText("https://www.mountaincreek.com/mountain/snow-report")
      [] fn = "killington"    -> JText("https://www.killington.com/api/resort-stats")
      [] fn = "stowe"         -> JText("https://www.stowe.com/the-mountain/mountain-report.aspx")
      [] fn = "stratton"      -> JText("https://www.stratton.com/the-mountain/mountain-report.aspx")
      [] fn = "tremblant"     -> JText("https://www.tremblant.ca/api/mountain-conditions")
      [] fn = "leMassif"      -> JText("https://www.lemassif.com/en/mountain/conditions/")
      [] fn = "montSteAnne"   -> JText("https://www.mont-sainte-anne.com/en/ski/conditions/")

HasFallback(fn) == fn \in {"killington", "tremblant"}
FallbackUrl(fn) ==
    CASE fn = "killington" -> JText("https://www.killington.com/the-mountain/snow-report")
      [] fn = "tremblant"  -> JText("https://www.tremblant.ca/en/ski/conditions")

\* fields an HTML adapter extracts with parseInches / parseInt2, and whether
\* it extracts `surface`
InchFields(fn, phase) ==
    CASE fn = "mountainCreek" -> {"base", "newSnow24"}
      [] fn = "killington"    -> {"base", "newSnow24"}
      [] fn = "stowe"         -> {"base", "summit", "newSnow24", "newSnow48", "season"}
      [] fn = "stratton"      -> {"base", "newSnow24"}
      [] fn = "tremblant"     -> {"base", "newSnow24"}
      [] fn = "leMassif"      -> {"base", "newSnow24", "season"}
      [] fn = "montSteAnne"   -> {"base", "newSnow24"}

CountFields(fn, phase) ==
    CASE fn = "mountainCreek" -> {"trailsOpen", "trailsTotal"}
      [] fn = "killington"    -> {"trailsOpen"}
      [] fn = "stowe"         -> {"trailsOpen", "trailsTotal", "liftsOpen"}
      [] fn = "stratton"      -> {"trailsOpen", "trailsTotal", "liftsOpen"}
      [] fn = "tremblant"     -> {"trailsOpen"}
      [] fn = "leMassif"      -> {"trailsOpen"}
      [] fn = "montSteAnne"   -> {"trailsOpen"}

\* does the HTML record of the adapter carry `surface`
HasSurface(fn) == fn \in {"mountainCreek", "killington", "stowe", "stratton"}

\* $(selector).first().text() for the selector of field k: "" when nothing matches
SelText(doc, k) == IF k \in DOMAIN doc.f THEN doc.f[k] ELSE JStr(<<>>)

\* the record an HTML adapter returns from a loaded page
HtmlRecord(fn, phase, doc, src) ==
    LET inch  == InchFields(fn, phase)
        count == CountFields(fn, phase)
        keys  == {"name", "status", "updatedAt", "source"} \cup inch \cup count
                    \cup (IF HasSurface(fn) THEN {"surface"} ELSE {})
        \* leMassif: cmToIn(parseInches(..) * 2.54) || parseInches(..); the pages
        \* served carry no "neige" element, so both selectors find the same text
    IN  [k \in keys |->
            CASE k = "name"      -> AdapterName(fn)
              [] k = "surface"   -> Or(Trim(IF "surface" \in DOMAIN doc.f THEN doc.f["surface"]
                                           ELSE JPad(0, <<>>, 0)), JNull)
              [] k = "status"    -> JText("Open")
              [] k = "updatedAt" -> now
              [] k = "source"    -> src
              [] k \in inch /\ ~(k = "base" /\ fn = "leMassif")
                                 -> parseInches(SelText(doc, k))
              [] k = "base" /\ fn = "leMassif"
                                 -> Or(cmToIn(Times254(parseInches(SelText(doc, k)))),
                                       parseInches(SelText(doc, k)))
              [] OTHER           -> parseInt2(SelText(doc, k))]

\* DegradedRecord with the depth defaulted to 0 instead of left out
DegradedRecordZeroBase(fn, src) ==
    [k \in {"name", "base", "updatedAt", "source"} |->
        CASE k = "name"      -> AdapterName(fn)
          [] k = "base"      -> JNum(0)
          [] k = "updatedAt" -> now
          [] OTHER           -> src]

\* the record of the catch block:  { name, updatedAt, source }
DegradedRecord(fn, src) ==
    [k \in {"name", "updatedAt", "source"} |->
        CASE k = "name"      -> AdapterName(fn)
          [] k = "updatedAt" -> now
          [] OTHER           -> src]

\* property access v.k: undefined on a primitive (the caller checks null first)
Prop(v, k) == IF v.t = "obj" THEN Get(v.f, k) ELSE JUndef

\* v.k throws a TypeError exactly when v is null or undefined
PropThrows(v) == v.t \in {"null", "undef"}

\* killington: the record built from the JSON endpoint (lines 133-149)
KillingtonRecord(data, src) ==
    LET sr == Or(Or(Prop(data, "snowReport"), Prop(data, "snow_report")), data)
        P(k) == Prop(sr, k)
    IN  [name        |-> AdapterName("killington"),
         base        |-> parseInches(Or(Or(P("baseDepth"), P("base_depth")), P("base"))),
         summit      |-> parseInches(Or(Or(P("summitDepth"), P("summit_depth")), P("summit"))),
         newSnow24   |-> parseInches(Or(Or(P("last24Hours"), P("new_snow_24")), P("snowfall24"))),
         newSnow48   |-> parseInches(Or(Or(P("last48Hours"), P("new_snow_48")), P("snowfall48"))),
         trailsOpen  |-> parseInt2(Or(P("openTrails"), P("trails_open"))),
         trailsTotal |-> parseInt2(Or(P("totalTrails"), P("trails_total"))),
         liftsOpen   |-> parseInt2(Or(P("openLifts"), P("lifts_open"))),
         liftsTotal  |-> parseInt2(Or(P("totalLifts"), P("lifts_total"))),
         surface     |-> Or(Or(P("primarySurface"), P("surface_conditions")), JNull),
         season      |-> parseInches(Or(P("seasonTotal"), P("season_total"))),
         status      |-> Or(Or(P("status"), P("resortStatus")), JText("Open")),
         updatedAt   |-> now,
         source      |-> src]

\* tremblant: the record built from the JSON endpoint (lines 805-818)
TremblantRecord(data, src) ==
    LET d == Or(Prop(data, "conditions"), data)
        P(k) == Prop(d, k)
    IN  [name        |-> AdapterName("tremblant"),
         base        |-> Or(cmToIn(P("baseDepthCm")), parseInches(P("baseDepth"))),
         summit      |-> cmToIn(P("summitDepthCm")),
         newSnow24   |-> Or(cmToIn(P("newSnow24hCm")), parseInches(P("newSnow24h"))),
         trailsOpen  |-> parseInt2(Or(P("openTrails"), P("openRuns"))),
         trailsTotal |-> parseInt2(Or(P("totalTrails"), P("totalRuns"))),
         liftsOpen   |-> parseInt2(P("openLifts")),
         surface     |-> Or(Or(P("surfaceConditions"), P("surface")), JNull),
         season      |-> Or(cmToIn(P("seasonTotalCm")), parseInches(P("seasonTotal"))),
         status      |-> Or(P("status"), JText("Open")),
         updatedAt   |-> now,
         source      |-> src]

\* the record an adapter with a JSON endpoint builds from its primary source
JsonRecord(fn, data, src) ==
    IF fn = "killington" THEN KillingtonRecord(data, src) ELSE TremblantRecord(data, src)

-----------------------------------------------------------------------------
(* SnoCountry pipeline: lib/scrapers.js *)

\* NAME_MAP, keyed by the words of the SnoCountry name
NAME_MAP ==
    <<"Mountain", "Creek">> :> JPad(0, <<"MOUNTAIN", "CREEK">>, 0) @@
    <<"Killington", "Resort">> :> JPad(0, <<"KILLINGTON">>, 0) @@
    <<"Killington">> :> JPad(0, <<"KILLINGTON">>, 0) @@
    <<"Stowe", "Mountain", "Resort">> :> JPad(0, <<"STOWE">>, 0) @@
    <<"Stowe">> :> JPad(0, <<"STOWE">>, 0) @@
    <<"Stratton", "Mountain">> :> JPad(0, <<"STRATTON">>, 0) @@
    <<"Stratton">> :> JPad(0, <<"STRATTON">>, 0) @@
    <<"Sugarbush", "Resort">> :> JPad(0, <<"SUGARBUSH">>, 0) @@
    <<"Sugarbush">> :> JPad(0, <<"SUGARBUSH">>, 0) @@
    <<"Pico", "Mountain">> :> JPad(0, <<"PICO", "MTN">>, 0) @@
    <<"Pico">> :> JPad(0, <<"PICO", "MTN">>, 0) @@
    <<"Okemo", "Mountain", "Resort">> :> JPad(0, <<"OKEMO">>, 0) @@
    <<"Okemo">> :> JPad(0, <<"OKEMO">>, 0) @@
    <<"Mount", "Snow">> :> JPad(0, <<"MOUNT", "SNOW">>, 0) @@
    <<"Jay", "Peak">> :> JPad(0, <<"JAY", "PEAK">>, 0) @@
    <<"Jay", "Peak", "Resort">> :> JPad(0, <<"JAY", "PEAK">>, 0) @@
    <<"Burke", "Mountain">> :> JPad(0, <<"BURKE", "MTN">>, 0) @@
    <<"Bolton", "Valley">> :> JPad(0, <<"BOLTON", "VALLEY">>, 0) @@
    <<"Bolton", "Valley", "Resort">> :> JPad(0, <<"BOLTON", "VALLEY">>, 0) @@
    <<"Magic", "Mountain">> :> JPad(0, <<"MAGIC", "MTN">>, 0) @@
    <<"Hunter", "Mountain">> :> JPad(0, <<"HUNTER", "MTN">>, 0) @@
    <<"Whiteface", "Mountain">> :> JPad(0, <<"WHITEFACE">>, 0) @@
    <<"Whiteface">> :> JPad(0, <<"WHITEFACE">>, 0) @@
    <<"Gore", "Mountain">> :> JPad(0, <<"GORE", "MTN">>, 0) @@
    <<"Gore">> :> JPad(0, <<"GORE", "MTN">>, 0) @@
    <<"Belleayre", "Mountain">> :> JPad(0, <<"BELLEAYRE">>, 0) @@
    <<"Belleayre">> :> JPad(0, <<"BELLEAYRE">>, 0) @@
    <<"Catamount">> :> JPad(0, <<"CATAMOUNT">>, 0) @@
    <<"Greek", "Peak", "Mountain", "Resort">> :> JPad(0, <<"GREEK", "PEAK">>, 0) @@
    <<"Greek", "Peak">> :> JPad(0, <<"GREEK", "PEAK">>, 0) @@
    <<"West", "Mountain">> :> JPad(0, <<"WEST", "MTN">>, 0) @@
    <<"Camelback", "Mountain", "Resort">> :> JPad(0, <<"CAMELBACK">>, 0) @@
    <<"Camelback">> :> JPad(0, <<"CAMELBACK">>, 0) @@
    <<"Blue", "Mountain">> :> JPad(0, <<"BLUE", "MTN", "PA">>, 0) @@
    <<"Blue", "Mountain", "Resort">> :> JPad(0, <<"BLUE", "MTN", "PA">>, 0) @@
    <<"Shawnee", "Mountain">> :> JPad(0, <<"SHAWNEE", "MTN">>, 0) @@
    <<"Sunday", "River">> :> JPad(0, <<"SUNDAY", "RIVER">>, 0) @@
    <<"Sunday", "River", "Resort">> :> JPad(0, <<"SUNDAY", "RIVER">>, 0) @@
    <<"Sugarloaf">> :> JPad(0, <<"SUGARLOAF">>, 0) @@
    <<"Sugarloaf", "Mountain">> :> JPad(0, <<"SUGARLOAF">>, 0) @@
    <<"Saddleback", "Maine">> :> JPad(0, <<"SADDLEBACK">>, 0) @@
    <<"Saddleback", "Mountain">> :> JPad(0, <<"SADDLEBACK">>, 0) @@
    <<"Saddleback">> :> JPad(0, <<"SADDLEBACK">>, 0) @@
    <<"Loon", "Mountain">> :> JPad(0, <<"LOON", "MTN">>, 0) @@
    <<"Loon", "Mountain", "Resort">> :> JPad(0, <<"LOON", "MTN">>, 0) @@
    <<"Attitash">> :> JPad(0, <<"ATTITASH">>, 0) @@
    <<"Attitash", "Mountain", "Resort">> :> JPad(0, <<"ATTITASH">>, 0) @@
    <<"Wildcat", "Mountain">> :> JPad(0, <<"WILDCAT">>, 0) @@
    <<"Wildcat">> :> JPad(0, <<"WILDCAT">>, 0) @@
    <<"Cannon", "Mountain">> :> JPad(0, <<"CANNON", "MTN">>, 0) @@
    <<"Waterville", "Valley">> :> JPad(0, <<"WATERVILLE", "VLY">>, 0) @@
    <<"Waterville", "Valley", "Resort">> :> JPad(0, <<"WATERVILLE", "VLY">>, 0) @@
    <<"Mont-Tremblant">> :> JPad(0, <<"MONT-TREMBLANT">>, 0) @@
    <<"Tremblant">> :> JPad(0, <<"MONT-TREMBLANT">>, 0) @@
    <<"Le", "Massif", "de", "Charlevoix">> :> JPad(0, <<"LE", "MASSIF">>, 0) @@
    <<"Le", "Massif">> :> JPad(0, <<"LE", "MASSIF">>, 0) @@
    <<"Mont-Sainte-Anne">> :> JPad(0, <<"MONT-STE-ANNE">>, 0) @@
    <<"Mont", "Sainte", "Anne">> :> JPad(0, <<"MONT-STE-ANNE">>, 0)

\* toLowerCase on the words the modelled feeds and their registered spellings use
LowerCase ==
    [w \in {"Killington", "killington", "Resort", "resort", "Stowe", "stowe"} |->
        CASE w = "Killington" -> "killington"
          [] w = "Resort"     -> "resort"
          [] w = "Stowe"      -> "stowe"
          [] OTHER            -> w]

\* do the word sequences a and b differ at most in letter case
SameButCase(a, b) ==
    /\ Len(a) = Len(b)
    /\ \A n \in 1..Len(a) :
          /\ a[n] \in DOMAIN LowerCase
          /\ b[n] \in DOMAIN LowerCase
          /\ LowerCase[a[n]] = LowerCase[b[n]]

\* MapLookup with the keys compared without regard to letter case
MapLookupAnyCase(name) ==
    IF name.t = "str" /\ "pre" \in DOMAIN name /\ name.pre = 0 /\ name.post = 0
       /\ \E k \in DOMAIN NAME_MAP : SameButCase(name.core, k)
    THEN NAME_MAP[CHOOSE k \in DOMAIN NAME_MAP : SameButCase(name.core, k)] ELSE JUndef

\* NAME_MAP[name]: undefined unless name is exactly a key
MapLookup(name) ==
    IF name.t = "str" /\ "pre" \in DOMAIN name /\ name.pre = 0 /\ name.post = 0
       /\ name.core \in DOMAIN NAME_MAP
    THEN NAME_MAP[name.core] ELSE JUndef

\* parseFloat(v) for the values the feeds carry
parseFloat(v) ==
    CASE v.t = "num" -> v
      [] v.t = "str" /\ "s" \in DOMAIN v -> ParseFloatChars(v.s)
      [] OTHER -> JNaN

\* parseInt(v) for the values the feeds carry
parseInt(v) ==
    CASE v.t = "num" -> JNum((IF v.v < 0 THEN -1 ELSE 1) * (Abs(v.v) \div Scale(v)))
      [] v.t = "str" /\ "s" \in DOMAIN v -> ParseIntChars(v.s)
      [] OTHER -> JNaN

\* the first of the spellings ks of a field of r that is truthy, else the last
RECURSIVE FirstOf(_, _)
FirstOf(r, ks) ==
    IF Len(ks) = 1 THEN Prop(r, ks[1])
    ELSE Or(Prop(r, ks[1]), FirstOf(r, Tail(ks)))

\* ReportTime with the provider's report time ignored
ReportTimeOfParse(r) == now

\* updatedAt of a parsed record: the provider's report time when it has one
ReportTime(r) == Or(FirstOf(r, <<"report_date_time", "reportDateTime">>), now)

\* StatusOf with the threshold itself counted as closed
StatusOfBelow(r) ==
    LET statusCode == Or(parseInt(FirstOf(r, <<"resort_status", "resortStatus">>)), JNum(0))
    IN  IF statusCode.v < 3 * Scale(statusCode) THEN JText("Open") ELSE JText("Closed")

\* statusCode = parseInt(r.resort_status || r.resortStatus) || 0 and its mapping
StatusOf(r) ==
    LET statusCode == Or(parseInt(FirstOf(r, <<"resort_status", "resortStatus">>)), JNum(0))
    IN  IF statusCode.v <= 3 * Scale(statusCode) THEN JText("Open") ELSE JText("Closed")

parseRecord(r) ==
    LET name    == FirstOf(r, <<"resort_name", "resortName">>)
        ourName == Or(MapLookup(name), MapLookup(Trim(name)))
    IN  IF ~Truthy(ourName) THEN JNull
        ELSE JObj(
          [name        |-> name,
           base        |-> Or(parseFloat(FirstOf(r, <<"base_depth", "baseDepth">>)), JNull),
           summit      |-> Or(parseFloat(FirstOf(r, <<"summit_depth", "summitDepth">>)), JNull),
           newSnow24   |-> Or(parseFloat(FirstOf(r, <<"fresh_snow", "freshSnow", "snow_last_24h", "snowLast24Hours">>)), JNull),
           newSnow48   |-> Or(parseFloat(FirstOf(r, <<"snow_last_48h", "snowLast48Hours">>)), JNull),
           newSnow7d   |-> Or(parseFloat(FirstOf(r, <<"snow_last_7d", "snowLast7Days">>)), JNull),
           trailsOpen  |-> Or(parseInt(FirstOf(r, <<"open_runs", "openRuns", "open_trails", "openTrails">>)), JNull),
           trailsTotal |-> Or(parseInt(FirstOf(r, <<"total_runs", "totalRuns", "total_trails", "totalTrails">>)), JNull),
           liftsOpen   |-> Or(parseInt(FirstOf(r, <<"open_lifts", "openLifts">>)), JNull),
           liftsTotal  |-> Or(parseInt(FirstOf(r, <<"total_lifts", "totalLifts">>)), JNull),
           surface     |-> Or(FirstOf(r, <<"primary_surface_condition", "primarySurfaceCondition">>), JNull),
           season      |-> Or(parseFloat(FirstOf(r, <<"season_total", "seasonTotal">>)), JNull),
           status      |-> StatusOf(r),
           updatedAt   |-> ReportTime(r),
           source      |-> JText("SnoCountry")])

\* the state codes of `states`, in the order of the source
StateCodes == <<"NJ", "VT", "NY", "PA", "NH", "ME", "QC">>
states == SubSeq(StateCodes, 1, NumFeeds)

\* fetchState after JSON.parse: the array, or data.resorts || data.data || []
FeedValue(data) ==
    IF data.t = "arr" THEN data
    ELSE Or(Or(Prop(data, "resorts"), Prop(data, "data")), JArr(<<>>))

-----------------------------------------------------------------------------
(* What the upstreams may deliver *)

Malformed == [t |-> "malformed"]    \* a body that is not JSON

\* a loaded page: for each field, the text of the first element its selector matches
JDoc(f) == [t |-> "html", f |-> f]
DocEmpty == JDoc(<<>>)              \* a page on which no selector matches
DocFull  == JDoc([base       |-> JStr(<<"5", "8", "\"">>),
                  newSnow24  |-> JStr(<<"3">>),
                  trailsOpen |-> JStr(<<"1", "2">>),
                  surface    |-> JPad(1, <<"Packed", "Powder">>, 1)])
DocZero  == JDoc([base |-> JStr(<<"0">>)])
HtmlDocs == {DocEmpty, DocFull, DocZero}

JsonBodies ==
    { Malformed, JNull, JObj(<<>>),
      JObj([snowReport |-> JObj([baseDepth |-> JStr(<<"5", "8">>),
                                 status    |-> JText("Closed")])]) }

\* what the JSON endpoint of tremblant may return
TremblantBodies ==
    { Malformed, JObj(<<>>),
      JObj([conditions |-> JObj([baseDepthCm |-> JNum(150),
                                 newSnow24h  |-> JStr(<<"3">>),
                                 status      |-> JPad(0, <<"On", "Hold">>, 0)])]) }

RawKillington == JObj([resort_name |-> JText("Killington"),
                       base_depth  |-> JStr(<<"5", "8">>)])
RawPadded     == JObj([resortName  |-> JPad(2, <<"Killington", "Resort">>, 2)])
RawStowe      == JObj([resort_name      |-> JText("Stowe"),
                       baseDepth        |-> JStr(<<"0">>),
                       report_date_time |-> JPad(0, <<"2024-01-15", "06:00:00">>, 0)])
RawUnknown    == JObj([resort_name |-> JPad(0, <<"Unknown", "Hill">>, 0),
                       base_depth  |-> JStr(<<"1", "0">>)])
\* a registered name in another letter case
RawLower      == JObj([resort_name |-> JPad(0, <<"killington", "resort">>, 0),
                       base_depth  |-> JStr(<<"5", "8">>)])
\* the upstream records a feed may carry, in the order a feed lists them
RawRecords == <<RawKillington, RawPadded, RawStowe, RawUnknown>>

RECURSIVE Pick(_, _)
\* the records of RawRecords at the indices S, in order
Pick(S, n) ==
    IF n = 0 THEN <<>>
    ELSE Pick(S, n - 1) \o (IF n \in S THEN <<RawRecords[n]>> ELSE <<>>)

\* the arrays a feed may return: at most MaxFeedLen of RawRecords
FeedArrays ==
    {Pick(S, Len(RawRecords)) : S \in {T \in SUBSET (1..Len(RawRecords)) : Cardinality(T) <= MaxFeedLen}}

\* a record whose name is not a string
RawNumbered == JObj([resort_name |-> JNum(42), base_depth |-> JStr(<<"3", "0">>)])

\* arrays whose elements are not all records: a null, a number, a numbered name
OddArrays == {JArr(<<RawKillington, JNull>>), JArr(<<JNum(7), RawStowe>>), JArr(<<RawNumbered>>)}

FeedBodies ==
    {Malformed, JNull, JObj(<<>>), JObj([resorts |-> JArr(<<RawKillington>>)]),
     JObj([data |-> JArr(<<RawLower>>)])}
    \cup {JArr(a) : a \in FeedArrays}
    \cup OddArrays

-----------------------------------------------------------------------------
(* One launched unit: an adapter (per-resort) or fetchState(code) (SnoCountry) *)

Units == IF variant = "resort" THEN 1..NumScrapers ELSE 1..NumFeeds

PhaseOf(p)   == IF p \in {"FetchingPrimary", "ReadingPrimary"} THEN "primary" ELSE "fallback"
Fetching(ph) == IF ph = "primary" THEN "FetchingPrimary" ELSE "FetchingFallback"
Reading(ph)  == IF ph = "primary" THEN "ReadingPrimary" ELSE "ReadingFallback"

\* how a step of a unit leaves it
Goto(p)   == [pc |-> p, settled |-> Pending]
Settle(s) == [pc |-> "Settled", settled |-> s]

\* SourceOf with the primary URL reported whichever source answered
SourceOfPrimary(fn, ph) == Url(fn)

\* the URL an adapter is fetching in phase ph
SourceOf(fn, ph) == IF ph = "primary" THEN Url(fn) ELSE FallbackUrl(fn)

\* AdapterCatch with the exception rethrown instead of absorbed
AdapterCatchRethrows(fn, ph) == Settle(Rejected(JText("Error")))

\* AdapterCatch with a failed primary fetch tried once more before giving up
AdapterCatchRetries(fn, ph) ==
    IF ph = "primary" THEN Goto("FetchingPrimary")
    ELSE Settle(Fulfilled(DegradedRecord(fn, FallbackUrl(fn))))

\* the catch block(s) of an adapter, entered in phase ph: the fallback fetch
\* when there is one and the primary failed, else the degraded record
AdapterCatch(fn, ph) ==
    IF HasFallback(fn) /\ ph = "primary" THEN Goto("FetchingFallback")
    ELSE Settle(Fulfilled(DegradedRecord(fn, IF HasFallback(fn) THEN FallbackUrl(fn) ELSE Url(fn))))

\* does the body read or the extraction of an adapter throw on `body`
AdapterThrows(fn, ph, body) ==
    IF HasFallback(fn) /\ ph = "primary"
    THEN body = Malformed \/ PropThrows(body)      \* res.json() / data.snowReport
    ELSE FALSE                                     \* cheerio loads any text

\* the try block of an adapter once the body has been read
\* AdapterTry with a throw of the extraction settling the adapter at once
AdapterTryNoFallback(fn, ph, body) ==
    IF AdapterThrows(fn, ph, body)
    THEN Settle(Fulfilled(DegradedRecord(fn, SourceOf(fn, ph))))
    ELSE IF HasFallback(fn) /\ ph = "primary"
         THEN Settle(Fulfilled(JsonRecord(fn, body, Url(fn))))
         ELSE Settle(Fulfilled(HtmlRecord(fn, ph, body, SourceOf(fn, ph))))

AdapterTry(fn, ph, body) ==
    IF AdapterThrows(fn, ph, body) THEN AdapterCatch(fn, ph)
    ELSE IF HasFallback(fn) /\ ph = "primary"
         THEN Settle(Fulfilled(JsonRecord(fn, body, Url(fn))))
         ELSE Settle(Fulfilled(HtmlRecord(fn, ph, body, SourceOf(fn, ph))))

\* the catch block of fetchState: return []
FeedCatch == Settle(Fulfilled(JArr(<<>>)))

\* does JSON.parse or the unwrapping of fetchState throw on `body`
FeedThrows(body) == body = Malformed \/ (body.t # "arr" /\ PropThrows(body))

\* the try block of fetchState once the text has been read
FeedTry(body) ==
    IF FeedThrows(body) THEN FeedCatch ELSE Settle(Fulfilled(FeedValue(body)))

\* a unit whose fetch or body read failed in phase ph
OnThrow(i, ph) ==
    IF variant = "resort" THEN AdapterCatch(ALL_SCRAPERS[i], ph) ELSE FeedCatch

\* a unit that has read `body` in phase ph
OnBody(i, ph, body) ==
    IF variant = "resort" THEN AdapterTry(ALL_SCRAPERS[i], ph, body) ELSE FeedTry(body)

\* does unit i throw on `body` after reading it in phase ph
BodyThrows(i, ph, body) ==
    IF variant = "resort" THEN AdapterThrows(ALL_SCRAPERS[i], ph, body) ELSE FeedThrows(body)

\* the bodies the upstream of unit i may serve in phase ph
Bodies(i, ph) ==
    IF variant = "sno" THEN FeedBodies
    ELSE IF ALL_SCRAPERS[i] = "killington" /\ ph = "primary" THEN JsonBodies
    ELSE IF ALL_SCRAPERS[i] = "tremblant" /\ ph = "primary" THEN TremblantBodies
    ELSE HtmlDocs

\* the fetches of a unit once it is at position p: entering a fetching
\* position is a call of fetchPage (fetchState: of fetch)
Issued(f, p) ==
    CASE p = "FetchingPrimary"  -> [f EXCEPT !.primary = @ + 1]
      [] p = "FetchingFallback" -> [f EXCEPT !.fallback = @ + 1]
      [] OTHER -> f

\* setTimeout on entry of fetchPage / fetchState, clearTimeout as soon as
\* fetch() has resolved or rejected: pending exactly while fetch() is awaited
TimerPending(p) == p \in {"FetchingPrimary", "FetchingFallback"}

\* unit i moves as `step` says; `class` and `body` are what its upstream did
Move(i, step, class, body) ==
    /\ pc' = [pc EXCEPT ![i] = step.pc]
    /\ settled' = [settled EXCEPT ![i] = step.settled]
    /\ got' = [got EXCEPT ![i] = [phase |-> PhaseOf(pc[i]), class |-> class, body |-> body]]
    /\ fetches' = [fetches EXCEPT ![i] = Issued(@, step.pc)]
    /\ timer' = [timer EXCEPT ![i] = TimerPending(step.pc)]
    \* an adapter stamps updatedAt: now() when it returns; fetchState reads no clock
    /\ clock' = IF step.pc = "Settled" /\ variant = "resort" THEN clock + 1 ELSE clock
    /\ UNCHANGED <<call, backend, runs, debug, variant, window, previous, request, qresponse, hpc, start, snapshot, store, writes, response>>

\* fetch() resolves with a response; a non-2xx status throws in fetchHTML,
\* fetchJSON or fetchState
FetchResponds(i, ok) ==
    /\ pc[i] \in {"FetchingPrimary", "FetchingFallback"}
    /\ IF ok THEN Move(i, Goto(Reading(PhaseOf(pc[i]))), "headers", NoValue)
             ELSE Move(i, OnThrow(i, PhaseOf(pc[i])), "http", NoValue)

\* fetch() rejects: a network error, or the 15 s timer aborted the request
FetchRejects(i, cause) ==
    /\ pc[i] \in {"FetchingPrimary", "FetchingFallback"}
    /\ cause = "abort" => timer[i]
    /\ Move(i, OnThrow(i, PhaseOf(pc[i])), cause, NoValue)

\* res.text() / res.json() rejects while the body is read
BodyRejects(i) ==
    /\ pc[i] \in {"ReadingPrimary", "ReadingFallback"}
    /\ Move(i, OnThrow(i, PhaseOf(pc[i])), "body", NoValue)

\* the body arrives and the unit extracts from it
BodyArrives(i, body) ==
    /\ pc[i] \in {"ReadingPrimary", "ReadingFallback"}
    /\ body \in Bodies(i, PhaseOf(pc[i]))
    /\ Move(i, OnBody(i, PhaseOf(pc[i]), body),
            IF BodyThrows(i, PhaseOf(pc[i]), body) THEN "parse" ELSE "ok", body)

-----------------------------------------------------------------------------
(* runAllScrapers after Promise.allSettled *)

\* AllSettled with the join taken at the first settlement (Promise.race)
AnySettled == \E i \in Units : settled[i] # Pending

\* Promise.allSettled resolves: no promise is pending any more
AllSettled == \A i \in Units : settled[i] # Pending

\* fn.name.toUpperCase()
UpperName(fn) ==
    CASE fn = "mountainCreek" -> JText("MOUNTAINCREEK")
      [] fn = "killington"    -> JText("KILLINGTON")
      [] fn = "stowe"         -> JText("STOWE")
      [] fn = "stratton"      -> JText("STRATTON")
      [] fn = "tremblant"     -> JText("TREMBLANT")
      [] fn = "leMassif"      -> JText("LEMASSIF")
      [] fn = "montSteAnne"   -> JText("MONTSTEANNE")

\* data.base != null
HasBase(data) == NotNullish(Get(data, "base"))

\* ResortResult with one rejection discarding every record (Promise.all style)
ResortResultAllOrNothing(i) ==
    IF \A j \in 1..NumScrapers :
          settled[j].t = "fulfilled" /\ "status" \in DOMAIN settled[j].value
    THEN settled[i].value
    ELSE [name |-> UpperName(ALL_SCRAPERS[i]), updatedAt |-> now]

\* what settled.forEach pushes for entry i (per-resort)
ResortResult(i) ==
    IF settled[i].t = "fulfilled" THEN settled[i].value
    ELSE [name |-> UpperName(ALL_SCRAPERS[i]), updatedAt |-> now]

\* ResortSuccessCount with `if (data.base)` for `if (data.base != null)`
ResortSuccessCountTruthy ==
    Cardinality({i \in 1..NumScrapers :
                    settled[i].t = "fulfilled" /\ Truthy(Get(settled[i].value, "base"))})

\* successCount as settled.forEach counts it (per-resort)
ResortSuccessCount ==
    Cardinality({i \in 1..NumScrapers : settled[i].t = "fulfilled" /\ HasBase(settled[i].value)})

\* ResortSnapshot with totalCount counting fetch attempts, fallbacks included
ResortSnapshotCountsAttempts ==
    [mountains    |-> [i \in 1..NumScrapers |-> ResortResult(i)],
     scrapedAt    |-> now,
     successCount |-> ResortSuccessCount,
     totalCount   |-> Len(ALL_SCRAPERS)
                        + Cardinality({i \in 1..NumScrapers : got[i].phase = "fallback"})]

\* the value the per-resort runAllScrapers returns
\* ResortSnapshot with the results in the order in which the adapters returned
ResortSnapshotAsCompleted ==
    LET order == CHOOSE p \in [1..NumScrapers -> 1..NumScrapers] :
                     \A i, j \in 1..NumScrapers :
                         i < j => ResortResult(p[i]).updatedAt.v < ResortResult(p[j]).updatedAt.v
    IN  [mountains    |-> [i \in 1..NumScrapers |-> ResortResult(order[i])],
         scrapedAt    |-> now,
         successCount |-> ResortSuccessCount,
         totalCount   |-> Len(ALL_SCRAPERS)]

ResortSnapshot ==
    [mountains    |-> [i \in 1..NumScrapers |-> ResortResult(i)],
     scrapedAt    |-> now,
     successCount |-> ResortSuccessCount,
     totalCount   |-> Len(ALL_SCRAPERS)]

RECURSIVE AllResorts(_)
\* allResorts: the values of the fulfilled feeds 1..n, concatenated in the order of `states`
AllResorts(n) ==
    IF n = 0 THEN <<>>
    ELSE AllResorts(n - 1) \o (IF settled[n].t = "fulfilled" THEN settled[n].value.a ELSE <<>>)

RECURSIVE Matched(_)
\* matched after allResorts.forEach has seen the records rs: the parsed
\* records whose name was not seen before
Matched(rs) ==
    IF rs = <<>> THEN <<>>
    ELSE LET before == Matched(SubSeq(rs, 1, Len(rs) - 1))
             parsed == parseRecord(rs[Len(rs)])
         IN  IF Truthy(parsed) /\ \A j \in 1..Len(before) : before[j].name # parsed.f.name
             THEN Append(before, parsed.f) ELSE before

\* the number of entries of ms with a base
CountBase(ms) == Cardinality({j \in 1..Len(ms) : HasBase(ms[j])})

\* SnoSnapshot with totalCount: allResorts.length for matched.length
SnoSnapshotCountsAll ==
    LET matched == Matched(AllResorts(NumFeeds))
    IN  [mountains    |-> matched,
         scrapedAt    |-> now,
         successCount |-> CountBase(matched),
         totalCount   |-> Len(AllResorts(NumFeeds))]

\* the value the SnoCountry runAllScrapers returns
SnoSnapshot ==
    LET matched == Matched(AllResorts(NumFeeds))
    IN  [mountains    |-> matched,
         scrapedAt    |-> now,
         successCount |-> CountBase(matched),
         totalCount   |-> Len(matched)]

\* does the SnoCountry aggregation raise: r.resort_name on a null element
\* parseRecord throws on r: `r.resort_name` of null, or `name?.trim()` of a
\* name that is neither nullish nor a string once NAME_MAP[name] found nothing
RecordThrows(r) ==
    \/ PropThrows(r)
    \/ LET name == FirstOf(r, <<"resort_name", "resortName">>)
       IN  NotNullish(name) /\ name.t # "str" /\ ~Truthy(MapLookup(name))

SnoRaises == \E j \in 1..Len(AllResorts(NumFeeds)) : RecordThrows(AllResorts(NumFeeds)[j])

\* the settlement of the promise runAllScrapers returned
RunResult ==
    IF variant = "resort" THEN Fulfilled(ResortSnapshot)
    ELSE IF SnoRaises THEN Rejected(JText("TypeError")) ELSE Fulfilled(SnoSnapshot)

-----------------------------------------------------------------------------
(* The /api/scrape handler and the storage gateway *)

Secret == JText("s3cret")

\* `Bearer ${cronSecret}`
Bearer(secret) == JPad(0, <<"Bearer">> \o secret.core, 0)

\* Authorized with any `secret` query parameter taken for the secret
AuthorizedAnyQuery(cronSecret, authHeader, querySecret) ==
    \/ ~Truthy(cronSecret)
    \/ (Truthy(cronSecret) /\ authHeader = Bearer(cronSecret))
    \/ Truthy(querySecret)

\* the auth check of the handler (lines 84-92): may this request run the pipeline
Authorized(cronSecret, authHeader, querySecret) ==
    LET validCron   == Truthy(cronSecret) /\ authHeader = Bearer(cronSecret)
        validManual == Truthy(cronSecret) /\ querySecret = cronSecret
        noSecret    == ~Truthy(cronSecret)
    IN  noSecret \/ validCron \/ validManual

AuthHeaders  == {JUndef, Bearer(Secret), Bearer(JText("wrong"))}
QuerySecrets == {JUndef, Secret, JText("wrong")}
CronSecrets  == {JUndef, Secret}

\* a request whose auth check fails: 401, nothing is launched
Unauthorized(cronSecret, authHeader, querySecret) ==
    /\ hpc = "Start"
    /\ ~Authorized(cronSecret, authHeader, querySecret)
    /\ hpc' = "Done"
    /\ response' = [status |-> 401, ok |-> FALSE]
    /\ UNCHANGED <<call, backend, runs, debug, variant, window, previous, request, qresponse, clock, pc, settled, got, fetches, timer, start,
                   snapshot, store, writes>>

\* an accepted request: runAllScrapers starts and calls every adapter (or
\* fetchState for every state); each runs up to its first await, the fetch
Launch(cronSecret, authHeader, querySecret) ==
    /\ hpc = "Start"
    /\ Authorized(cronSecret, authHeader, querySecret)
    /\ hpc' = "Scraping"
    /\ start' = now
    /\ pc' = [i \in Units |-> "FetchingPrimary"]
    /\ fetches' = [i \in Units |-> Issued([calls |-> fetches[i].calls + 1,
                                           primary |-> fetches[i].primary,
                                           fallback |-> fetches[i].fallback],
                                          "FetchingPrimary")]
    /\ timer' = [i \in Units |-> TimerPending("FetchingPrimary")]
    /\ clock' = clock + 1
    /\ UNCHANGED <<call, backend, runs, debug, variant, window, previous, request, qresponse, settled, got, snapshot, store, writes, response>>

\* Promise.allSettled resolves and runAllScrapers builds its result
\* Join with a rejected run handed on to setData as an empty snapshot
JoinStoresEmpty ==
    /\ hpc = "Scraping"
    /\ AllSettled
    /\ clock' = clock + 1
    /\ snapshot' = IF RunResult.t = "fulfilled" THEN RunResult.value
                   ELSE [mountains |-> <<>>, scrapedAt |-> now, successCount |-> 0, totalCount |-> 0]
    /\ hpc' = "Saving"
    /\ response' = response
    /\ UNCHANGED <<call, backend, runs, debug, variant, window, previous, request, qresponse, pc, settled, got, fetches, timer, start, store, writes>>

Join ==
    /\ hpc = "Scraping"
    /\ AllSettled
    /\ clock' = clock + 1
    /\ IF RunResult.t = "fulfilled"
       THEN /\ snapshot' = RunResult.value
            /\ hpc' = "Saving"
            /\ response' = response
       ELSE /\ snapshot' = snapshot
            /\ hpc' = "Done"
            /\ response' = [status |-> 500, ok |-> FALSE, error |-> RunResult.reason]
    /\ UNCHANGED <<call, backend, runs, debug, variant, window, previous, request, qresponse, pc, settled, got, fetches, timer, start, store, writes>>

\* what the backend held before this invocation: nothing, or the payload an
\* earlier run stored
PreviousStored ==
    [mountains    |-> << [name      |-> JText("KILLINGTON"),
                          base      |-> JNum(40),
                          status    |-> JText("Open"),
                          updatedAt |-> JNum(0),
                          source    |-> JText("https://www.killington.com/api/resort-stats")] >>,
     scrapedAt    |-> JNum(0),
     successCount |-> 1,
     totalCount   |-> 1,
     storedAt     |-> JNum(0)]

\* StoredPayload with the mountains of the stored snapshot kept in front
StoredPayloadMerging(value) ==
    [k \in DOMAIN value \cup {"storedAt"} |->
        CASE k = "storedAt" -> now
          [] k = "mountains" /\ store # NoValue -> store.mountains \o value.mountains
          [] OTHER -> value[k]]

\* setData: the payload is the value plus storedAt
StoredPayload(value) == [k \in DOMAIN value \cup {"storedAt"} |->
                            IF k = "storedAt" THEN now ELSE value[k]]

\* one record after JSON.stringify and JSON.parse: keys holding undefined
\* are dropped, NaN becomes null
JsonRecordCopy(m) ==
    [k \in {x \in DOMAIN m : m[x].t # "undef"} |-> IF m[k].t = "nan" THEN JNull ELSE m[k]]

\* the payload as the backend hands it back: localSet / localGet go through
\* JSON.stringify and JSON.parse, kv.set / kv.get through the KV's JSON encoding
JsonCopy(payload) ==
    [k \in DOMAIN payload |->
        IF k = "mountains"
        THEN [j \in 1..Len(payload.mountains) |-> JsonRecordCopy(payload.mountains[j])]
        ELSE payload[k]]

\* getData serving the value the backend held when the deployment started
getDataStale == IF previous = NoValue THEN JNull ELSE previous

\* getData when the backend can be read: the stored value, or null
getData == IF store = NoValue THEN JNull ELSE store

\* the per-mountain summary of the 200 response
Summary(m) == [name  |-> Get(m, "name"),
               base  |-> Get(m, "base"),
               new24 |-> Get(m, "newSnow24"),
               ok    |-> HasBase(m)]

\* TriggerResponse with a failed write reported as an error
TriggerResponseStrict(saved) ==
    IF saved
    THEN [status       |-> 200,
          ok           |-> TRUE,
          scrapedAt    |-> snapshot.scrapedAt,
          successCount |-> snapshot.successCount,
          totalCount   |-> snapshot.totalCount,
          saved        |-> saved,
          mountains    |-> [j \in 1..Len(snapshot.mountains) |->
                               Summary(snapshot.mountains[j])]]
    ELSE [status |-> 500, ok |-> FALSE]

\* the 200 response of the handler (lines 113-125)
TriggerResponse(saved) ==
    [status       |-> 200,
     ok           |-> TRUE,
     scrapedAt    |-> snapshot.scrapedAt,
     successCount |-> snapshot.successCount,
     totalCount   |-> snapshot.totalCount,
     saved        |-> saved,
     mountains    |-> [j \in 1..Len(snapshot.mountains) |->
                          Summary(snapshot.mountains[j])]]

\* setData(results) and the 200 response; `saved` is whether the backend
\* write went through (kvSet / localSet return false when it throws)
Persist(saved) ==
    /\ hpc = "Saving"
    /\ store' = IF saved THEN JsonCopy(StoredPayload(snapshot)) ELSE store
    /\ writes' = IF saved THEN writes + 1 ELSE writes
    /\ clock' = clock + 1
    /\ hpc' = "Done"
    /\ response' = TriggerResponse(saved)
    /\ UNCHANGED <<call, backend, runs, debug, variant, window, previous, request, qresponse, pc, settled, got, fetches, timer, start, snapshot>>

-----------------------------------------------------------------------------
(* The /api/conditions handler: njskihaus-api/api/conditions.js *)

\* what getData resolves with: kvGet / localGet return null when the read throws
ReadData(read) == IF read = "ok" THEN getData ELSE JNull

Methods == {"GET", "OPTIONS", "POST"}

\* the response of the handler to a request of the given method, when the
\* backend read goes as `read` says; method and read are kept as history
QueryResponse(method, read) ==
    LET data == ReadData(read)
    IN  CASE method = "OPTIONS" -> [method |-> method, read |-> "none", status |-> 200]
          [] method # "OPTIONS" /\ method # "GET" ->
                [method |-> method, read |-> "none", status |-> 405, ok |-> FALSE]
          [] method = "GET" /\ data = JNull ->
                [method |-> method, read |-> read, status |-> 503, ok |-> FALSE]
          [] OTHER ->
                [method       |-> method,
                 read         |-> read,
                 status       |-> 200,
                 ok           |-> TRUE,
                 scrapedAt    |-> Get(data, "scrapedAt"),
                 storedAt     |-> Get(data, "storedAt"),
                 successCount |-> Get(data, "successCount"),
                 totalCount   |-> Get(data, "totalCount"),
                 mountains    |-> IF "mountains" \in DOMAIN data THEN data.mountains ELSE <<>>]

\* Query with the stored value consumed by the read
QueryAndClear(method, read) ==
    /\ qresponse' = QueryResponse(method, read)
    /\ store' = IF method = "GET" THEN NoValue ELSE store
    /\ UNCHANGED <<call, backend, runs, debug, variant, window, previous, request, clock, hpc, pc, settled, got,
                   fetches, timer, start, snapshot, writes, response>>

\* one request to /api/conditions, served at any moment
Query(method, read) ==
    /\ qresponse' = QueryResponse(method, read)
    /\ UNCHANGED <<call, backend, runs, debug, variant, window, previous, request, clock, hpc, pc, settled, got,
                   fetches, timer, start, snapshot, store, writes, response>>

\* the TTL of the KV entry elapses (kv.set(key, value, { ex: 60 * 60 * 36 }))
Expire ==
    /\ store # NoValue
    /\ store' = NoValue
    /\ UNCHANGED <<call, backend, runs, debug, variant, window, previous, request, clock, hpc, pc, settled, got,
                   fetches, timer, start, snapshot, writes, response, qresponse>>

-----------------------------------------------------------------------------
(* The debug runner: lib/test-scrapers.js.  Strings are tuples of characters. *)

\* fn.name of the entries of ALL_SCRAPERS, the whole list
ScraperFns ==
    << <<"m", "o", "u", "n", "t", "a", "i", "n", "C", "r", "e", "e", "k">>,
       <<"k", "i", "l", "l", "i", "n", "g", "t", "o", "n">>,
       <<"s", "t", "o", "w", "e">>,
       <<"s", "t", "r", "a", "t", "t", "o", "n">>,
       <<"s", "u", "g", "a", "r", "b", "u", "s", "h">>,
       <<"p", "i", "c", "o">>,
       <<"o", "k", "e", "m", "o">>,
       <<"m", "o", "u", "n", "t", "S", "n", "o", "w">>,
       <<"j", "a", "y", "P", "e", "a", "k">>,
       <<"b", "u", "r", "k", "e">>,
       <<"b", "o", "l", "t", "o", "n", "V", "a", "l", "l", "e", "y">>,
       <<"m", "a", "g", "i", "c">>,
       <<"h", "u", "n", "t", "e", "r">>,
       <<"w", "h", "i", "t", "e", "f", "a", "c", "e">>,
       <<"g", "o", "r", "e">>,
       <<"b", "e", "l", "l", "e", "a", "y", "r", "e">>,
       <<"c", "a", "t", "a", "m", "o", "u", "n", "t">>,
       <<"g", "r", "e", "e", "k", "P", "e", "a", "k">>,
       <<"w", "e", "s", "t", "M", "t", "n">>,
       <<"c", "a", "m", "e", "l", "b", "a", "c", "k">>,
       <<"b", "l", "u", "e", "M", "t", "n", "P", "A">>,
       <<"s", "h", "a", "w", "n", "e", "e">>,
       <<"s", "u", "n", "d", "a", "y", "R", "i", "v", "e", "r">>,
       <<"s", "u", "g", "a", "r", "l", "o", "a", "f">>,
       <<"s", "a", "d", "d", "l", "e", "b", "a", "c", "k">>,
       <<"l", "o", "o", "n">>,
       <<"a", "t", "t", "i", "t", "a", "s", "h">>,
       <<"w", "i", "l", "d", "c", "a", "t">>,
       <<"c", "a", "n", "n", "o", "n">>,
       <<"w", "a", "t", "e", "r", "v", "i", "l", "l", "e", "V", "a", "l", "l", "e", "y">>,
       <<"t", "r", "e", "m", "b", "l", "a", "n", "t">>,
       <<"l", "e", "M", "a", "s", "s", "i", "f">>,
       <<"m", "o", "n", "t", "S", "t", "e", "A", "n", "n", "e">> >>

\* the region codes, as typed
RegionCodes == {<<"n", "j">>, <<"v", "t">>, <<"n", "y">>, <<"p", "a">>, <<"n", "e">>, <<"c", "a">>}

REGION_MAP(code) ==
    CASE code = <<"n", "j">> ->
            << <<"m", "o", "u", "n", "t", "a", "i", "n", " ", "c", "r", "e", "e", "k">> >>
      [] code = <<"v", "t">> ->
            << <<"k", "i", "l", "l", "i", "n", "g", "t", "o", "n">>,
               <<"s", "t", "o", "w", "e">>,
               <<"s", "t", "r", "a", "t", "t", "o", "n">>,
               <<"s", "u", "g", "a", "r", "b", "u", "s", "h">>,
               <<"p", "i", "c", "o">>,
               <<"o", "k", "e", "m", "o">>,
               <<"m", "o", "u", "n", "t", " ", "s", "n", "o", "w">>,
               <<"j", "a", "y", " ", "p", "e", "a", "k">>,
               <<"b", "u", "r", "k", "e">>,
               <<"b", "o", "l", "t", "o", "n", " ", "v", "a", "l", "l", "e", "y">>,
               <<"m", "a", "g", "i", "c">> >>
      [] code = <<"n", "y">> ->
            << <<"h", "u", "n", "t", "e", "r">>,
               <<"w", "h", "i", "t", "e", "f", "a", "c", "e">>,
               <<"g", "o", "r", "e">>,
               <<"b", "e", "l", "l", "e", "a", "y", "r", "e">>,
               <<"c", "a", "t", "a", "m", "o", "u", "n", "t">>,
               <<"g", "r", "e", "e", "k", " ", "p", "e", "a", "k">>,
               <<"w", "e", "s", "t", " ", "m", "t", "n">> >>
      [] code = <<"p", "a">> ->
            << <<"c", "a", "m", "e", "l", "b", "a", "c", "k">>,
               <<"b", "l", "u", "e", " ", "m", "t", "n">>,
               <<"s", "h", "a", "w", "n", "e", "e">> >>
      [] code = <<"n", "e">> ->
            << <<"s", "u", "n", "d", "a", "y", " ", "r", "i", "v", "e", "r">>,
               <<"s", "u", "g", "a", "r", "l", "o", "a", "f">>,
               <<"s", "a", "d", "d", "l", "e", "b", "a", "c", "k">>,
               <<"l", "o", "o", "n">>,
               <<"a", "t", "t", "i", "t", "a", "s", "h">>,
               <<"w", "i", "l", "d", "c", "a", "t">>,
               <<"c", "a", "n", "n", "o", "n">>,
               <<"w", "a", "t", "e", "r", "v", "i", "l", "l", "e">> >>
      [] code = <<"c", "a">> ->
            << <<"t", "r", "e", "m", "b", "l", "a", "n", "t">>,
               <<"l", "e", " ", "m", "a", "s", "s", "i", "f">>,
               <<"m", "o", "n", "t", "-", "s", "t", "e", "-", "a", "n", "n", "e">> >>

\* the scrapers of a region: the functions under the region's heading in
\* njskihaus-api/lib/scrapers.js, in the order of ALL_SCRAPERS
RegionScrapers(code) ==
    CASE code = <<"n", "j">> -> SubSeq(ScraperFns, 1, 1)
      [] code = <<"v", "t">> -> SubSeq(ScraperFns, 2, 12)
      [] code = <<"n", "y">> -> SubSeq(ScraperFns, 13, 19)
      [] code = <<"p", "a">> -> SubSeq(ScraperFns, 20, 22)
      [] code = <<"n", "e">> -> SubSeq(ScraperFns, 23, 30)
      [] code = <<"c", "a">> -> SubSeq(ScraperFns, 31, 33)

UpperCase == <<"A", "B", "C", "D", "E", "F", "G", "H", "I", "J", "K", "L", "M", "N", "O", "P", "Q", "R", "S", "T", "U", "V", "W", "X", "Y", "Z">>
LowerCaseOf == <<"a", "b", "c", "d", "e", "f", "g", "h", "i", "j", "k", "l", "m", "n", "o", "p", "q", "r", "s", "t", "u", "v", "w", "x", "y", "z">>

IsCapital(c) == \E k \in 1..Len(UpperCase) : UpperCase[k] = c

\* String.prototype.toLowerCase on the characters of the names
toLowerCase(s) ==
    [k \in 1..Len(s) |->
        IF IsCapital(s[k]) THEN LowerCaseOf[CHOOSE j \in 1..Len(UpperCase) : UpperCase[j] = s[k]]
        ELSE s[k]]

RECURSIVE SpaceCapitals(_)
\* s.replace(/([A-Z])/g, ' $1'): a blank in front of every capital
SpaceCapitals(s) ==
    IF s = <<>> THEN <<>>
    ELSE (IF IsCapital(Head(s)) THEN <<" ", Head(s)>> ELSE <<Head(s)>>) \o SpaceCapitals(Tail(s))

\* String.prototype.includes
includes(s, t) == \E k \in 0..(Len(s) - Len(t)) : SubSeq(s, k + 1, k + Len(t)) = t

\* const name = fn.name.toLowerCase().replace(/([A-Z])/g, ' $1').toLowerCase()
ScraperLabel(fn) == toLowerCase(SpaceCapitals(toLowerCase(fn)))

\* ALL_SCRAPERS.filter(...) for a non-empty argument
matchingScrapers(arg) ==
    LET Matches(fn) ==
            IF arg \in RegionCodes
            THEN \E k \in 1..Len(REGION_MAP(arg)) : includes(ScraperLabel(fn), REGION_MAP(arg)[k])
            ELSE includes(ScraperLabel(fn), arg)
    IN  SelectSeq(ScraperFns, Matches)

\* process.argv[2]?.toLowerCase(): no argument, a region code, a scraper's
\* name, a fragment of names, something else
DebugArgs ==
    {JUndef} \cup {JStr(c) : c \in RegionCodes}
    \cup {JStr(toLowerCase(ScraperFns[k])) : k \in 1..Len(ScraperFns)}
    \cup {JStr(<<"m", "o", "u", "n", "t">>),
          JStr(<<"s", "u", "g", "a", "r">>),
          JStr(<<"m", "o", "u", "n", "t", "a", "i", "n", " ", "c", "r", "e", "e", "k">>),
          JStr(<<"x", "y", "z">>),
          JStr(<<"n", "h">>),
          JStr(<<"c", "r", "e", "e", "k">>),
          JStr(<<"m", "o", "n", "t">>)}

\* main() up to the loop: without an argument the whole pipeline is run; with
\* one the scrapers are filtered, and process.exit(1) ends the run when the
\* filter leaves none
DebugSelect ==
    /\ debug # NoValue
    /\ debug.at = "main"
    /\ debug' = IF debug.arg = JUndef \/ debug.arg.s = <<>>
                THEN [debug EXCEPT !.at = "exit0", !.matching = ScraperFns, !.ran = Len(ScraperFns)]
                ELSE LET m == matchingScrapers(debug.arg.s)
                     IN  [debug EXCEPT !.at = IF m = <<>> THEN "exit1" ELSE "running",
                                       !.matching = m]
    /\ UNCHANGED <<call, backend, runs, variant, window, clock, hpc, pc, settled, got, fetches, timer, start,
                   snapshot, store, previous, request, writes, response, qresponse>>

\* one turn of the loop: the next selected scraper is awaited and printed
DebugRunOne ==
    /\ debug # NoValue
    /\ debug.at = "running"
    /\ debug.ran < Len(debug.matching)
    /\ debug' = [debug EXCEPT !.ran = @ + 1]
    /\ UNCHANGED <<call, backend, runs, variant, window, clock, hpc, pc, settled, got, fetches, timer, start,
                   snapshot, store, previous, request, writes, response, qresponse>>

\* the loop is over and main() returns
DebugReturn ==
    /\ debug # NoValue
    /\ debug.at = "running"
    /\ debug.ran = Len(debug.matching)
    /\ debug' = [debug EXCEPT !.at = "exit0"]
    /\ UNCHANGED <<call, backend, runs, variant, window, clock, hpc, pc, settled, got, fetches, timer, start,
                   snapshot, store, previous, request, writes, response, qresponse>>

-----------------------------------------------------------------------------
(* Overlapping invocations of /api/scrape on one backend *)

NumInvocations == 2

Invocations == 1..NumInvocations

\* the mountains a run may end with
RunOutcomes == {<<>>, PreviousStored.mountains}

\* the pieces of this section leave the single-invocation state alone
OnlyRuns ==
    UNCHANGED <<call, backend, debug, variant, window, previous, request, qresponse, hpc, pc, settled,
                got, fetches, timer, start, snapshot, response>>

\* invocation k passes the gate and calls runAllScrapers
Trigger(k) ==
    /\ runs[k].at = "Start"
    /\ runs' = [runs EXCEPT ![k].at = "Scraping"]
    /\ clock' = clock + 1
    /\ UNCHANGED <<store, writes>>
    /\ OnlyRuns

\* runAllScrapers of invocation k returns: scrapedAt is stamped here
Resolve(k, ms) ==
    /\ runs[k].at = "Scraping"
    /\ runs' = [runs EXCEPT ![k].at = "Saving",
                            ![k].results = [mountains    |-> ms,
                                            scrapedAt    |-> now,
                                            successCount |-> CountBase(ms),
                                            totalCount   |-> Len(ms)]]
    /\ clock' = clock + 1
    /\ UNCHANGED <<store, writes>>
    /\ OnlyRuns

\* setData of invocation k builds the payload and sends kv.set
Send(k) ==
    /\ runs[k].at = "Saving"
    /\ runs' = [runs EXCEPT ![k].at = "Writing",
                            ![k].payload = JsonCopy(StoredPayload(runs[k].results))]
    /\ clock' = clock + 1
    /\ UNCHANGED <<store, writes>>
    /\ OnlyRuns

\* the backend applies the write of invocation k (or fails to) and the
\* handler answers
Land(k, saved) ==
    /\ runs[k].at = "Writing"
    /\ store' = IF saved THEN runs[k].payload ELSE store
    /\ writes' = IF saved THEN writes + 1 ELSE writes
    /\ runs' = [runs EXCEPT ![k].at = "Done"]
    /\ UNCHANGED clock
    /\ OnlyRuns

-----------------------------------------------------------------------------
(* The storage backends over time: lib/scrapers.js, "Public interface".
   In this section one unit of the clock is 12 hours. *)

\* { ex: 60 * 60 * 36 }: 36 hours, in units of 12 hours
Ttl == 3

\* how long the store is watched, and how many writes are followed
MaxClock == 6
MaxWrites == 2

\* isProduction: Vercel KV when KV_URL / KV_REST_API_URL is set, else the file
Backends == {"kv", "local"}

\* the expiry a write gives the entry, one unit later than kv.set asks for
ExpiryLate(kind) == [expires |-> kind = "kv", deadline |-> clock + Ttl + 1]

\* the expiry a write gives the entry: kvSet passes ex, localSet has none
Expiry(kind) == [expires |-> kind = "kv", deadline |-> IF kind = "kv" THEN clock + Ttl ELSE 0]

\* setData(results): the payload gets storedAt and goes to the backend in
\* use; `saved` is whether the write went through
SetData(ms, saved) ==
    /\ writes < MaxWrites
    /\ store' = IF saved
                THEN JsonCopy(StoredPayload([mountains    |-> ms,
                                             scrapedAt    |-> now,
                                             successCount |-> CountBase(ms),
                                             totalCount   |-> Len(ms)]))
                ELSE store
    /\ writes' = IF saved THEN writes + 1 ELSE writes
    /\ backend' = IF saved THEN [kind |-> backend.kind] @@ Expiry(backend.kind) ELSE backend
    /\ UNCHANGED <<call, runs, debug, variant, window, previous, request, qresponse, clock, hpc, pc,
                   settled, got, fetches, timer, start, snapshot, response>>

\* 12 hours pass; the KV drops an entry whose time to live is over
Tick ==
    /\ clock < MaxClock
    /\ clock' = clock + 1
    /\ store' = IF backend.expires /\ clock + 1 >= backend.deadline THEN NoValue ELSE store
    /\ UNCHANGED <<call, backend, runs, debug, variant, window, previous, request, qresponse, hpc, pc,
                   settled, got, fetches, timer, start, snapshot, writes, response>>

-----------------------------------------------------------------------------
(* The normalising functions on their own: parseRecord of lib/scrapers.js and
   the extraction of the adapters of njskihaus-api/lib/scrapers.js *)

\* the calls: parseRecord on SnoCountry records, the record construction of
\* killington and tremblant on JSON bodies, that of mountainCreek and leMassif
\* on pages; a payload carries only the fields the provider sent
Calls ==
    LET Carrying(f) == JObj([k \in {x \in DOMAIN f : f[x] # JUndef} |-> f[k]])
        \* values a provider may send as status code, as a depth, as a count
        StatusValues ==
            {JUndef, JNull, JStr(<<>>), JNum(0), JNum(1), JNum(3), JNum(4), JNum(9), JNum(-1),
             JDec(35, 1), JDec(45, 1), JStr(<<"3">>), JStr(<<"4">>), JStr(<<" ", "2">>),
             JStr(<<"5", "a", "b", "c">>), JStr(<<"o", "p", "e", "n">>), JText("closed")}
        DepthValues ==
            {JUndef, JNull, JNum(0), JStr(<<"0">>), JNum(58), JStr(<<"5", "8">>),
             JStr(<<"5", "8", "\"">>), JDec(25, 1), JStr(<<"n", "/", "a">>)}
        CountValues ==
            {JUndef, JNum(0), JStr(<<"0">>), JNum(7), JStr(<<"7">>), JNum(-2), JStr(<<"-", "2">>),
             JDec(75, 1), JStr(<<"a", "l", "l">>)}
        \* centimetre values a provider may send
        CmValues == {JUndef, JNull, JNum(0), JNum(1), JNum(142), JStr(<<"1", "4", "2">>), JText("abc")}
        \* texts a page may show in an element
        DepthTexts == {JStr(<<>>), JStr(<<"0">>), JStr(<<"1", "4", "2", " ", "c", "m">>),
                       JStr(<<"5", "8", "\"">>), JStr(<<"T", "B", "D">>)}
        CountTexts == {JStr(<<>>), JStr(<<"0">>), JStr(<<"1", "2">>), JStr(<<"-", "3">>)}
        SnoArgs ==
            {Carrying([resort_name |-> JText("Killington"), resort_status |-> s,
                       base_depth |-> d, open_lifts |-> c]) :
                s \in StatusValues, d \in DepthValues, c \in CountValues}
        KillingtonArgs ==
            {JObj([snowReport |-> Carrying([baseDepth |-> d, openLifts |-> c])]) :
                d \in DepthValues, c \in CountValues}
        TremblantArgs ==
            {JObj([conditions |-> Carrying([baseDepthCm |-> cm, summitDepthCm |-> s,
                                            baseDepth |-> d, openLifts |-> c])]) :
                cm \in CmValues, s \in {JUndef, JNum(142), JText("abc")},
                d \in {JUndef, JStr(<<"5", "6", "\"">>)}, c \in CountValues}
        HtmlArgs == {JDoc([base |-> d, trailsOpen |-> c]) : d \in DepthTexts, c \in CountTexts}
    IN  {[fn |-> "parseRecord", arg |-> a, out |-> NoValue] : a \in SnoArgs}
        \cup {[fn |-> "killington", arg |-> a, out |-> NoValue] : a \in KillingtonArgs}
        \cup {[fn |-> "tremblant", arg |-> a, out |-> NoValue] : a \in TremblantArgs}
        \cup {[fn |-> f, arg |-> a, out |-> NoValue] : f \in {"mountainCreek", "leMassif"}, a \in HtmlArgs}

Idle ==
    UNCHANGED <<backend, runs, debug, variant, window, previous, request, qresponse, clock, hpc,
                pc, settled, got, fetches, timer, start, snapshot, store, writes, response>>

\* parseRecord(r)
ParseRecordCall ==
    /\ call.fn = "parseRecord"
    /\ call.out = NoValue
    /\ call' = [call EXCEPT !.out = parseRecord(call.arg)]
    /\ Idle

\* the try block of killington / tremblant on the body of the JSON endpoint
JsonExtract ==
    /\ call.fn \in {"killington", "tremblant"}
    /\ call.out = NoValue
    /\ call' = [call EXCEPT !.out = JObj(JsonRecord(call.fn, call.arg, Url(call.fn)))]
    /\ Idle

\* the try block of an HTML adapter on the page it loaded
HtmlExtract ==
    /\ call.fn \in {"mountainCreek", "leMassif"}
    /\ call.out = NoValue
    /\ call' = [call EXCEPT !.out = JObj(HtmlRecord(call.fn, "primary", call.arg, Url(call.fn)))]
    /\ Idle

-----------------------------------------------------------------------------
(* The specification *)

\* the state in which a trigger request finds the deployment
Fresh ==
    /\ variant \in {"resort", "sno"}
    /\ window \in IF variant = "resort" THEN {"first", "last"} ELSE {"first"}
    /\ clock = 1
    /\ hpc = "Start"
    /\ pc = [i \in Units |-> "NotStarted"]
    /\ settled = [i \in Units |-> Pending]
    /\ got = [i \in Units |-> NoValue]
    /\ fetches = [i \in Units |-> [calls |-> 0, primary |-> 0, fallback |-> 0]]
    /\ timer = [i \in Units |-> FALSE]
    /\ start = NoValue
    /\ snapshot = NoValue
    /\ store \in {NoValue, PreviousStored}
    /\ previous = store
    /\ writes = 0
    /\ response = NoValue
    /\ qresponse = NoValue

\* a run for any request: the request is drawn by the handler's step
Init == Fresh /\ request = NoValue /\ debug = NoValue /\ runs = NoValue /\ backend = NoValue /\ call = NoValue

Next ==
    \/ \E c \in CronSecrets, h \in AuthHeaders, q \in QuerySecrets : Unauthorized(c, h, q)
    \/ \E c \in CronSecrets, h \in AuthHeaders, q \in QuerySecrets : Launch(c, h, q)
    \/ \E i \in Units, ok \in BOOLEAN : FetchResponds(i, ok)
    \/ \E i \in Units, cause \in {"network", "abort"} : FetchRejects(i, cause)
    \/ \E i \in Units : BodyRejects(i)
    \/ \E i \in Units, body \in FeedBodies \cup JsonBodies \cup TremblantBodies \cup HtmlDocs :
          BodyArrives(i, body)
    \/ Join
    \/ \E saved \in BOOLEAN : Persist(saved)

Spec == Init /\ [][Next]_vars

\* the 15 s timer of some pending fetch fires
TimerFires == \E i \in Units : FetchRejects(i, "abort")

\* Spec with the guarantee of the event loop: a pending timer fires.  Nothing
\* obliges an upstream to answer or to finish a body.
SpecTimed == Init /\ [][Next]_vars /\ WF_vars(TimerFires)

\* the requests a trigger may receive, with the CRON_SECRET of the deployment
Requests == [c : CronSecrets, h : AuthHeaders, q : QuerySecrets]

\* a run for one given request
InitGate == Fresh /\ request \in Requests /\ debug = NoValue /\ runs = NoValue /\ backend = NoValue /\ call = NoValue

\* the auth gate of the handler applied to the given request
NextGate ==
    \/ Unauthorized(request.c, request.h, request.q)
    \/ Launch(request.c, request.h, request.q)

\* the handler up to its auth gate, for every request
SpecGate == InitGate /\ [][NextGate]_vars

\* the bodies the upstreams serve in the runs of SpecServed
ServedBodies == {DocFull, JArr(<<RawKillington, RawStowe>>)}

\* the trigger together with the readers of the store; every upstream either
\* fails (non-2xx, network error) or serves one of ServedBodies
NextServed ==
    \/ \E c \in CronSecrets, h \in AuthHeaders, q \in QuerySecrets : Unauthorized(c, h, q)
    \/ \E c \in CronSecrets, h \in AuthHeaders, q \in QuerySecrets : Launch(c, h, q)
    \/ \E i \in Units, ok \in BOOLEAN : FetchResponds(i, ok)
    \/ \E i \in Units : FetchRejects(i, "network")
    \/ \E i \in Units, body \in ServedBodies : BodyArrives(i, body)
    \/ Join
    \/ \E saved \in BOOLEAN : Persist(saved)
    \/ \E method \in Methods, read \in {"ok", "error"} : Query(method, read)
    \/ Expire

\* the deployment: one trigger invocation, any number of queries, the KV's TTL
SpecServed == Init /\ [][NextServed]_vars

\* node lib/test-scrapers.js started with one of DebugArgs
InitDebug ==
    /\ Fresh
    /\ variant = "resort" /\ window = "first" /\ store = NoValue
    /\ request = NoValue
    /\ debug \in {[arg |-> a, at |-> "main", matching |-> <<>>, ran |-> 0] : a \in DebugArgs}
    /\ runs = NoValue
    /\ backend = NoValue
    /\ call = NoValue

NextDebug == DebugSelect \/ DebugRunOne \/ DebugReturn

\* the debug runner, for every argument
SpecDebug == InitDebug /\ [][NextDebug]_vars

\* several trigger requests arrive while none has finished
InitConcurrent ==
    /\ Fresh
    /\ variant = "sno"
    /\ request = NoValue
    /\ debug = NoValue
    /\ runs = [k \in Invocations |-> [at |-> "Start", results |-> NoValue, payload |-> NoValue]]
    /\ backend = NoValue
    /\ call = NoValue

NextConcurrent ==
    \/ \E k \in Invocations : Trigger(k)
    \/ \E k \in Invocations, ms \in RunOutcomes : Resolve(k, ms)
    \/ \E k \in Invocations : Send(k)
    \/ \E k \in Invocations, saved \in BOOLEAN : Land(k, saved)

\* overlapping invocations, in every interleaving of their steps
SpecConcurrent == InitConcurrent /\ [][NextConcurrent]_vars

\* a deployment on either backend, nothing stored yet
InitStorage ==
    /\ Fresh
    /\ variant = "sno"
    /\ store = NoValue
    /\ request = NoValue
    /\ debug = NoValue
    /\ runs = NoValue
    /\ backend \in {[kind |-> b, expires |-> FALSE, deadline |-> 0] : b \in Backends}
    /\ call = NoValue

NextStorage ==
    \/ \E ms \in RunOutcomes, saved \in BOOLEAN : SetData(ms, saved)
    \/ Tick
    \/ \E method \in Methods, read \in {"ok", "error"} : Query(method, read)

\* writes, reads and the passing of time on one backend
SpecStorage == InitStorage /\ [][NextStorage]_vars

\* one call, for every argument
InitNormalize ==
    /\ Fresh
    /\ variant = "sno"
    /\ store = NoValue
    /\ request = NoValue
    /\ debug = NoValue
    /\ runs = NoValue
    /\ backend = NoValue
    /\ call \in Calls

NextNormalize == ParseRecordCall \/ JsonExtract \/ HtmlExtract

\* the normalising functions applied to every argument
SpecNormalize == InitNormalize /\ [][NextNormalize]_vars

-----------------------------------------------------------------------------
(* Properties *)

\* the ways the last fetch attempt of a unit can fail
NetFailures == {"http", "network", "abort", "body"}
Failures    == NetFailures \cup {"parse"}

\* unit i has settled and its last attempt failed
Failed(i) == pc[i] = "Settled" /\ got[i].class \in Failures

\* an attempt of adapter i that leaves no further attempt when it fails
LastAttempt(i) == ~HasFallback(ALL_SCRAPERS[i]) \/ got[i].phase = "fallback"

\* rec without its timestamp
SansTime(rec) == [k \in DOMAIN rec \ {"updatedAt"} |-> rec[k]]

\* C1: whatever its fetches do (success, non-2xx, network error, abort,
\* unusable payload) an adapter of ALL_SCRAPERS settles by fulfilling with a
\* record; its promise never rejects, so runAllScrapers sees no rejection.
C1_AdaptersNeverReject ==
    variant = "resort" =>
        \A i \in Units :
            /\ settled[i].t # "rejected"
            /\ pc[i] = "Settled" => /\ settled[i].t = "fulfilled"
                                    /\ "name" \in DOMAIN settled[i].value
            /\ (got[i] # NoValue /\ got[i].class \in Failures /\ LastAttempt(i))
                   => (pc[i] = "Settled" /\ settled[i].t = "fulfilled")

\* C1 witness: the run joined after one adapter was aborted by its timer and
\* the other failed both its primary and its fallback fetch
C1_Witness ==
    /\ variant = "resort" /\ hpc = "Saving"
    /\ Failed(1) /\ got[1].class = "abort"
    /\ Failed(2) /\ got[2].phase = "fallback" /\ got[2].class = "http"

\* the fields the spec requires of every record
Required == {"name", "status", "updatedAt", "source"}

\* C2 (as claimed): every record of a snapshot, the degraded ones included,
\* has name, status, updatedAt and source populated.
C2_RequiredFieldsPopulated ==
    snapshot # NoValue =>
        \A j \in 1..Len(snapshot.mountains) :
            \A k \in Required : NotNullish(Get(snapshot.mountains[j], k))

\* what each unit does and leaves alone while the run is scraping: a step
\* moves one unit and touches no other
OneUnitPerStep ==
    \A i \in Units, j \in Units :
        (i # j /\ (pc'[i] # pc[i] \/ settled'[i] # settled[i]) /\ hpc = "Scraping" /\ hpc' = "Scraping")
            => (pc'[j] = pc[j] /\ settled'[j] = settled[j])

\* the record unit i produced from the body it was served, per its own try block
OwnRecord(i) == AdapterTry(ALL_SCRAPERS[i], got[i].phase, got[i].body).settled.value

RECURSIVE AnsweredResorts(_)
\* the records of the feeds 1..n that answered, in the order of `states`
AnsweredResorts(n) ==
    IF n = 0 THEN <<>>
    ELSE AnsweredResorts(n - 1) \o (IF got[n].class = "ok" THEN FeedValue(got[n].body).a ELSE <<>>)

C3_State ==
    \* all units are launched together, none waits for another
    /\ hpc = "Scraping" => \A i \in Units : pc[i] # "NotStarted"
    \* once every unit has settled, however it settled, the run goes on
    /\ (hpc = "Scraping" /\ \A i \in Units : pc[i] = "Settled")
           => /\ AllSettled
              /\ \/ RunResult.t = "fulfilled"
                 \* what stops a run is never a failure: it is content a feed delivered
                 \/ /\ variant = "sno"
                    /\ \E i \in Units :
                          /\ got[i].class = "ok"
                          /\ \E j \in 1..Len(FeedValue(got[i].body).a) :
                                 RecordThrows(FeedValue(got[i].body).a[j])
    \* and it ends in a snapshot
    /\ (hpc = "Saving" \/ (hpc = "Done" /\ response.status = 200)) => snapshot # NoValue
    \* in which every unit that did not fail has the record of its own payload
    /\ (snapshot # NoValue /\ variant = "resort") =>
           \A i \in Units : got[i].class = "ok" =>
               SansTime(snapshot.mountains[i]) = SansTime(OwnRecord(i))
    /\ (snapshot # NoValue /\ variant = "sno") =>
           /\ \A i \in Units : got[i].class = "ok" => settled[i].value = FeedValue(got[i].body)
           /\ Len(snapshot.mountains) = Len(Matched(AnsweredResorts(NumFeeds)))
           /\ \A j \in 1..Len(snapshot.mountains) :
                  SansTime(snapshot.mountains[j]) = SansTime(Matched(AnsweredResorts(NumFeeds))[j])

\* C3: the failure of any subset of units neither stops the run nor changes
\* what a unit that did not fail contributes; all units are launched
\* together and a step of one unit leaves every other unit as it was.
C3_FailuresAreIsolated == []C3_State /\ [][OneUnitPerStep]_vars

\* C3 witness: a snapshot in which unit 1 failed and unit 2 delivered a base
C3_Witness ==
    /\ snapshot # NoValue
    /\ Failed(1)
    /\ got[2].class = "ok"
    /\ variant = "resort" => HasBase(snapshot.mountains[2])
    /\ variant = "sno" => Len(snapshot.mountains) > 0

\* C4: the snapshot exists, and is written to storage, only once every
\* launched unit has settled, and one invocation writes at most once.
C4_SnapshotAfterBarrier ==
    /\ snapshot # NoValue => \A i \in Units : pc[i] = "Settled"
    /\ store # previous => (snapshot # NoValue /\ \A i \in Units : pc[i] = "Settled")
    /\ writes <= 1
    /\ hpc \in {"Start", "Scraping"} => (snapshot = NoValue /\ store = previous /\ writes = 0)

\* C4 witness: the invocation has written its snapshot
C4_Witness == hpc = "Done" /\ writes = 1 /\ store # previous /\ store # NoValue

\* C5: successCount is the number of entries of mountains with a base, and
\* it is at most totalCount, in both variants.
C5_SuccessCount ==
    snapshot # NoValue =>
        /\ snapshot.successCount =
              Cardinality({j \in 1..Len(snapshot.mountains) :
                              NotNullish(Get(snapshot.mountains[j], "base"))})
        /\ snapshot.successCount <= snapshot.totalCount

\* C5 witness: a snapshot holding entries with and without a base
C5_Witness ==
    /\ snapshot # NoValue
    /\ snapshot.successCount > 0
    /\ snapshot.successCount < snapshot.totalCount
    /\ \E j \in 1..Len(snapshot.mountains) :
           Get(snapshot.mountains[j], "base") = JNum(0) \/ Get(snapshot.mountains[j], "base") = JNull

\* the number of units whose last attempt failed
NumFailed == Cardinality({i \in Units : Failed(i)})

\* the number of registered providers: the entries of ALL_SCRAPERS, or the
\* state feeds listed in `states`
NumProviders == IF variant = "resort" THEN Len(ALL_SCRAPERS) ELSE Len(states)

\* C6 (as claimed): totalCount is at most the number of registered providers,
\* the state feeds being the providers of the SnoCountry variant.
C6_TotalAtMostProviders ==
    snapshot # NoValue => snapshot.totalCount <= NumProviders

\* C6 (amended): per-resort, totalCount is at most the number of entries of
\* ALL_SCRAPERS; SnoCountry, totalCount is at most the number of upstream
\* records the state feeds returned (which may exceed the number of feeds).
C6_TotalAtMostRecords ==
    snapshot # NoValue =>
        /\ variant = "resort" => snapshot.totalCount <= Len(ALL_SCRAPERS)
        /\ variant = "sno" => snapshot.totalCount <= Len(AnsweredResorts(NumFeeds))

\* C6 witness: a SnoCountry snapshot with more entries than state feeds
C6_Witness ==
    /\ variant = "sno" /\ snapshot # NoValue
    /\ snapshot.totalCount > Len(states)

\* C7: totalCount is the number of entries of mountains in both variants,
\* and per-resort both are |ALL_SCRAPERS| whichever adapters failed.
C7_TotalIsLength ==
    snapshot # NoValue =>
        /\ snapshot.totalCount = Len(snapshot.mountains)
        /\ variant = "resort" => Len(snapshot.mountains) = Len(ALL_SCRAPERS)

\* C7 witness: a per-resort snapshot of a run in which every adapter failed
C7_Witness ==
    /\ variant = "resort" /\ snapshot # NoValue
    /\ \A i \in Units : Failed(i)

\* C8 (as claimed): every provider whose fetch failed, a state feed
\* included, has its own degraded record without a base in the snapshot,
\* counted in totalCount and not in successCount.
C8_OneDegradedPerFailure ==
    snapshot # NoValue =>
        /\ Cardinality({j \in 1..Len(snapshot.mountains) :
                           ~NotNullish(Get(snapshot.mountains[j], "base"))}) >= NumFailed
        /\ snapshot.totalCount - snapshot.successCount >= NumFailed

\* C8 (amended): per-resort, an adapter whose last fetch attempt failed has
\* exactly one record in the snapshot, at its own position, without a base,
\* counted in totalCount and not in successCount; SnoCountry, a state feed
\* that failed resolves with [] and contributes no record at all.
C8_DegradedOrOmitted ==
    snapshot # NoValue =>
        /\ variant = "resort" =>
              /\ \A i \in Units : Failed(i) =>
                    /\ snapshot.mountains[i].name = AdapterName(ALL_SCRAPERS[i])
                    /\ "base" \notin DOMAIN snapshot.mountains[i]
                    /\ Cardinality({j \in 1..Len(snapshot.mountains) :
                           snapshot.mountains[j].name = AdapterName(ALL_SCRAPERS[i])}) = 1
              /\ snapshot.totalCount = Len(ALL_SCRAPERS)
              /\ snapshot.successCount <= snapshot.totalCount - NumFailed
        /\ variant = "sno" =>
              /\ \A i \in Units : Failed(i) => settled[i].value = JArr(<<>>)
              /\ snapshot.totalCount <= Len(AnsweredResorts(NumFeeds))

\* C8 witness: a SnoCountry snapshot of a run in which every feed's fetch failed
C8_Witness ==
    /\ variant = "sno" /\ snapshot # NoValue
    /\ \A i \in Units : Failed(i) /\ got[i].class \in NetFailures

\* the canonical identifier a record name stands for
Canon(name) ==
    LET c == Or(MapLookup(name), MapLookup(Trim(name)))
    IN  IF Truthy(c) THEN c ELSE name

\* C9 (as claimed): mountains holds at most one record per canonical
\* identifier.
C9_UniqueCanonical ==
    snapshot # NoValue =>
        \A j, k \in 1..Len(snapshot.mountains) :
            j # k => Canon(snapshot.mountains[j].name) # Canon(snapshot.mountains[k].name)

\* the closed set of canonical identifiers
CanonicalNames ==
    {NAME_MAP[k] : k \in DOMAIN NAME_MAP}
        \cup {AdapterName(Roster[i]) : i \in 1..Len(Roster)}
        \cup {AdapterName(RosterEnd[i]) : i \in 1..Len(RosterEnd)}

\* C10 (as claimed): the name of every record is a canonical identifier,
\* never the raw provider string.
C10_NamesCanonical ==
    snapshot # NoValue =>
        \A j \in 1..Len(snapshot.mountains) : snapshot.mountains[j].name \in CanonicalNames

-----------------------------------------------------------------------------
(* Name resolution *)

\* the provider-supplied name of an upstream record
ProviderName(r) == FirstOf(r, <<"resort_name", "resortName">>)

\* is `name`, as it stands or without its surrounding whitespace, a key of NAME_MAP
Registered(name) ==
    /\ name.t = "str"
    /\ "core" \in DOMAIN name
    /\ \E k \in DOMAIN NAME_MAP : k = name.core

\* the provider names of the records the feeds served that are registered
AcceptedNames ==
    {ProviderName(AllResorts(NumFeeds)[j]) :
        j \in {n \in 1..Len(AllResorts(NumFeeds)) :
                  Registered(ProviderName(AllResorts(NumFeeds)[n]))}}

CaseVariant(name) ==
    /\ name.t = "str"
    /\ "core" \in DOMAIN name
    /\ \E k \in DOMAIN NAME_MAP : SameButCase(name.core, k)

\* the served records whose provider name is `name` have an entry in mountains
Kept(name) == \E j \in 1..Len(snapshot.mountains) : snapshot.mountains[j].name = name

-----------------------------------------------------------------------------
(* Fallback sources *)

\* unit i is an adapter with a fallback whose fallback page was fetched and read
FallbackAnswered(i) ==
    /\ variant = "resort"
    /\ HasFallback(ALL_SCRAPERS[i])
    /\ "phase" \in DOMAIN got[i]
    /\ got[i].phase = "fallback"
    /\ got[i].class = "ok"

\* C13: when the primary of killington or tremblant failed and the fallback
\* answered, the record is extracted from the fallback page and its source
\* is the fallback URL, not the primary URL
C13_FallbackRecord ==
    \A i \in Units :
        FallbackAnswered(i) =>
            /\ settled[i].t = "fulfilled"
            /\ settled[i].value.source = FallbackUrl(ALL_SCRAPERS[i])
            /\ settled[i].value.source # Url(ALL_SCRAPERS[i])
            /\ settled[i].value.base = parseInches(SelText(got[i].body, "base"))
            /\ settled[i].value.newSnow24 = parseInches(SelText(got[i].body, "newSnow24"))
            /\ settled[i].value.trailsOpen = parseInt2(SelText(got[i].body, "trailsOpen"))
            /\ snapshot # NoValue =>
                  /\ snapshot.mountains[i].source = FallbackUrl(ALL_SCRAPERS[i])
                  /\ snapshot.mountains[i].base = settled[i].value.base

\* tremblant's JSON endpoint failed and its conditions page carried a base depth
C13_Witness ==
    \E i \in Units :
        /\ FallbackAnswered(i)
        /\ ALL_SCRAPERS[i] = "tremblant"
        /\ got[i].body = DocFull
        /\ snapshot # NoValue
        /\ snapshot.mountains[i].base = JNum(58)

-----------------------------------------------------------------------------
(* Fetch discipline *)

\* the ways a fetch attempt ends in failure
FailureClasses == {"http", "network", "abort", "body", "parse"}

C14_State ==
    \A i \in Units :
        /\ fetches[i].calls = (IF pc[i] = "NotStarted" THEN 0 ELSE 1)
        /\ fetches[i].primary = fetches[i].calls
        /\ fetches[i].fallback <= 1
        /\ (variant = "sno" \/ ~HasFallback(ALL_SCRAPERS[i])) => fetches[i].fallback = 0
        /\ fetches[i].fallback = 1 => pc[i] \notin {"FetchingPrimary", "ReadingPrimary"}

C14_Step ==
    \A i \in Units :
        fetches'[i].fallback > fetches[i].fallback =>
            /\ pc[i] \in {"FetchingPrimary", "ReadingPrimary"}
            /\ got'[i].phase = "primary"
            /\ got'[i].class \in FailureClasses

\* C14: per run every adapter is called once, issues one primary fetch and at
\* most one fallback fetch (none without a fallback URL), and the fallback
\* fetch is issued by the step in which the primary attempt ends in failure,
\* never while the primary is in flight
C14_FetchDiscipline == []C14_State /\ [][C14_Step]_vars

\* a finished run in which one adapter went to its fallback and another has none
C14_Witness ==
    /\ variant = "resort"
    /\ snapshot # NoValue
    /\ \E i \in Units : fetches[i] = [calls |-> 1, primary |-> 1, fallback |-> 1]
    /\ \E i \in Units : fetches[i] = [calls |-> 1, primary |-> 1, fallback |-> 0]

-----------------------------------------------------------------------------
(* Timeouts *)

\* C15 (as claimed): every fetch attempt is bounded by its abort timer, so in
\* a run that has started every adapter eventually settles (and the join can
\* proceed), even when an upstream stalls before its headers or in the middle
\* of its body
C15_AdaptersSettle == (hpc = "Scraping") ~> AllSettled

-----------------------------------------------------------------------------
(* Timestamps *)

\* C16 (as claimed): scrapedAt is the wall-clock time at which the run began,
\* so it is no later than any fetch of the run and than any adapter's updatedAt
C16_ScrapedAtIsStart ==
    snapshot # NoValue =>
        /\ snapshot.scrapedAt = start
        /\ \A j \in 1..Len(snapshot.mountains) :
              snapshot.mountains[j].updatedAt.t = "num"
                  => snapshot.scrapedAt.v <= snapshot.mountains[j].updatedAt.v

FirstServed(name) ==
    LET rs == AllResorts(NumFeeds)
        n  == CHOOSE n \in 1..Len(rs) :
                 /\ ProviderName(rs[n]) = name
                 /\ \A m \in 1..(n - 1) : ProviderName(rs[m]) # name
    IN  rs[n]

\* the report time an upstream record carries, if any
ProviderTime(r) == Or(Prop(r, "report_date_time"), Prop(r, "reportDateTime"))

-----------------------------------------------------------------------------
(* Record fields *)

\* the values of the status enum
StatusEnum == {JText("Open"), JText("Closed"), JText("OpeningSoon")}

\* C18 (as claimed): the status of every record of every snapshot is one of
\* Open, Closed, OpeningSoon, whatever the upstream sent
C18_StatusInEnum ==
    snapshot # NoValue =>
        \A j \in 1..Len(snapshot.mountains) : Get(snapshot.mountains[j], "status") \in StatusEnum

-----------------------------------------------------------------------------
(* Storage gateway *)

\* the handler has answered after a write that went through
Saved == "saved" \in DOMAIN response /\ response.saved

\* C19: after a successful setData(S) getData returns the fields of S plus the
\* storedAt of the write; nothing of the snapshot stored before survives; the
\* snapshot runAllScrapers returns carries no storedAt
C19_StoreReplaces ==
    /\ snapshot # NoValue => "storedAt" \notin DOMAIN snapshot
    /\ Saved =>
          /\ DOMAIN getData = DOMAIN snapshot \cup {"storedAt"}
          /\ \A k \in DOMAIN snapshot : getData[k] = snapshot[k]
          /\ getData.storedAt = JNum(clock - 1)
          /\ getData.storedAt.v > snapshot.scrapedAt.v

\* a snapshot written over the payload of an earlier run
C19_Witness ==
    /\ Saved
    /\ previous = PreviousStored
    /\ writes = 1
    /\ Len(getData.mountains) > 0
    /\ getData.storedAt # PreviousStored.storedAt
    /\ getData.scrapedAt # PreviousStored.scrapedAt

\* the summary the response gives of one record
Brief(m) == [name  |-> Get(m, "name"),
             base  |-> Get(m, "base"),
             new24 |-> Get(m, "newSnow24"),
             ok    |-> Get(m, "base").t \notin {"null", "undef"}]

\* C20: whether or not the storage write went through, the handler answers
\* 200 with ok: true and the scrapedAt, counts and per-mountain summary of the
\* snapshot; saved tells the two apart, and a failed write leaves the store as it was
C20_WriteFailureStill200 ==
    (hpc = "Done" /\ snapshot # NoValue) =>
        /\ response.status = 200
        /\ response.ok
        /\ response.saved = (writes = 1)
        /\ ~response.saved => store = previous
        /\ response.scrapedAt = snapshot.scrapedAt
        /\ response.successCount = snapshot.successCount
        /\ response.totalCount = snapshot.totalCount
        /\ response.mountains =
              [j \in 1..Len(snapshot.mountains) |-> Brief(snapshot.mountains[j])]

\* a run with records whose write failed
C20_Witness ==
    /\ hpc = "Done"
    /\ snapshot # NoValue
    /\ response.status = 200
    /\ ~response.saved
    /\ Len(response.mountains) > 0
    /\ previous = PreviousStored

-----------------------------------------------------------------------------
(* Access to the trigger *)

\* the request carries the configured secret, as bearer header or as query parameter
CarriesSecret ==
    \/ (request.h.t = "str" /\ request.h.core = <<"Bearer">> \o request.c.core)
    \/ request.q = request.c

\* no fetch has been launched and nothing was written
NothingRan ==
    /\ \A i \in Units : pc[i] = "NotStarted" /\ fetches[i].primary = 0
    /\ snapshot = NoValue
    /\ store = previous
    /\ writes = 0

\* C21: with a secret configured the pipeline runs only for a request that
\* carries it as `Bearer <secret>` or as ?secret=; every other request gets
\* 401 with ok: false, launches nothing and leaves the store alone; with no
\* secret configured every request runs the pipeline
C21_AuthGate ==
    /\ hpc = "Scraping" => (request.c = JUndef \/ CarriesSecret)
    /\ hpc = "Done" =>
          /\ request.c # JUndef
          /\ ~CarriesSecret
          /\ response = [status |-> 401, ok |-> FALSE]
          /\ NothingRan
    /\ hpc = "Start" => NothingRan

\* a request with a wrong secret in both places has been turned away
C21_Witness ==
    /\ hpc = "Done"
    /\ request = [c |-> Secret, h |-> Bearer(JText("wrong")), q |-> JText("wrong")]
    /\ response.status = 401
    /\ previous = PreviousStored

-----------------------------------------------------------------------------
(* The readers of the store *)

\* some trigger invocation, this one or an earlier one, has written a snapshot
EverPersisted == previous # NoValue \/ writes > 0

\* the step is the answer to a GET on /api/conditions
AnswersGet == qresponse' # qresponse /\ qresponse'.method = "GET"

\* the answer carries the five fields of the stored value
ServesStored(r, value) ==
    /\ r.status = 200
    /\ r.ok
    /\ r.scrapedAt = value.scrapedAt
    /\ r.storedAt = value.storedAt
    /\ r.successCount = value.successCount
    /\ r.totalCount = value.totalCount
    /\ r.mountains = value.mountains

\* C22 as claimed: once a snapshot has been persisted every GET is answered
\* 200 with the fields of the last persisted snapshot, and 503 is answered
\* only when no snapshot has ever been persisted
C22_ServedOncePersisted ==
    [][AnswersGet =>
          /\ EverPersisted => (store # NoValue /\ ServesStored(qresponse', store))
          /\ qresponse'.status = 503 => ~EverPersisted]_vars

\* C22: a GET is answered 200 with the scrapedAt, storedAt, successCount,
\* totalCount and mountains of the value the store holds, which is the last
\* snapshot persisted, whenever the store holds one and the read returns it;
\* it is answered 503 with ok: false whenever the store holds nothing (never
\* written, or the entry expired) or the read fails
C22_ServedWhileStored ==
    [][AnswersGet =>
          /\ store # NoValue => EverPersisted
          /\ (store # NoValue /\ writes = 0) => store = previous
          /\ (store # NoValue /\ writes > 0) =>
                /\ store.scrapedAt = snapshot.scrapedAt
                /\ store.totalCount = snapshot.totalCount
          /\ IF store # NoValue /\ qresponse'.read = "ok"
             THEN ServesStored(qresponse', store)
             ELSE qresponse'.status = 503 /\ ~qresponse'.ok]_vars

\* a GET was answered with the snapshot this invocation wrote over an older one
C22_Witness ==
    /\ qresponse # NoValue
    /\ qresponse.method = "GET"
    /\ qresponse.status = 200
    /\ writes = 1
    /\ previous # NoValue
    /\ store # previous
    /\ store # NoValue
    /\ qresponse.scrapedAt = store.scrapedAt
    /\ qresponse.mountains = store.mountains

\* C23: every request to the query handler, of any method, ends in a
\* structured response (200, 405, 503 or 500) and leaves the persisted
\* snapshot, and everything else the trigger works on, as it was
C23_QueryReadOnly ==
    [][qresponse' # qresponse =>
          /\ qresponse'.method \in Methods
          /\ qresponse'.status \in {200, 405, 503, 500}
          /\ qresponse'.method = "GET" <=> qresponse'.status \in {200, 503} /\ "ok" \in DOMAIN qresponse'
          /\ store' = store
          /\ <<snapshot, writes, hpc, response>>' = <<snapshot, writes, hpc, response>>]_vars

\* a POST was turned away with 405 while the store held a snapshot
C23_Witness ==
    /\ qresponse # NoValue
    /\ qresponse.method = "POST"
    /\ qresponse.status = 405
    /\ store # NoValue
    /\ store = previous

-----------------------------------------------------------------------------
(* Determinism of a run *)

\* the record of unit i as a function of what its upstream served last
FromUpstream(i) ==
    IF got[i].class = "ok" THEN SansTime(OwnRecord(i))
    ELSE SansTime(AdapterCatch(ALL_SCRAPERS[i], got[i].phase).settled.value)

\* the SnoCountry records as a function of what the feeds served
FromFeeds == Matched(AnsweredResorts(NumFeeds))

\* C24: the snapshot of a run, its timestamps aside, is a function of what
\* the upstreams served: the mountains in the order of ALL_SCRAPERS (of the
\* state list), the counts computed from them, whatever the order in which
\* the fetches completed; two runs served the same responses differ only in
\* scrapedAt / storedAt / updatedAt
C24_SnapshotOfResponses ==
    snapshot # NoValue =>
        /\ DOMAIN snapshot = {"mountains", "scrapedAt", "successCount", "totalCount"}
        /\ variant = "resort" =>
              /\ Len(snapshot.mountains) = NumScrapers
              /\ \A i \in Units : SansTime(snapshot.mountains[i]) = FromUpstream(i)
              /\ snapshot.successCount =
                     Cardinality({i \in Units : HasBase(FromUpstream(i))})
              /\ snapshot.totalCount = NumScrapers
        /\ variant = "sno" =>
              /\ Len(snapshot.mountains) = Len(FromFeeds)
              /\ \A j \in 1..Len(FromFeeds) :
                     SansTime(snapshot.mountains[j]) = SansTime(FromFeeds[j])
              /\ snapshot.successCount = CountBase(FromFeeds)
              /\ snapshot.totalCount = Len(FromFeeds)

\* a per-resort run in which the second adapter returned before the first
C24_Witness ==
    /\ snapshot # NoValue
    /\ variant = "resort"
    /\ got[1].class = "ok"
    /\ got[2].class = "ok"
    /\ snapshot.mountains[2].updatedAt.v < snapshot.mountains[1].updatedAt.v

-----------------------------------------------------------------------------
(* Order of the results *)

\* the names the adapters of the roster give their records, in the order of
\* JavaScript's string comparison
Alphabetical ==
    << JText("KILLINGTON"), JPad(0, <<"LE", "MASSIF">>, 0), JText("MONT-STE-ANNE"),
       JText("MONT-TREMBLANT"), JPad(0, <<"MOUNTAIN", "CREEK">>, 0), JText("STOWE"),
       JText("STRATTON") >>

NameRank(name) == CHOOSE k \in 1..Len(Alphabetical) : Alphabetical[k] = name

\* C25: the mountains of a per-resort snapshot are sorted by name, each name
\* less than or equal to the one that follows it
C25_SortedByName ==
    (snapshot # NoValue /\ variant = "resort") =>
        \A i \in 1..(Len(snapshot.mountains) - 1) :
            NameRank(snapshot.mountains[i].name) <= NameRank(snapshot.mountains[i + 1].name)

-----------------------------------------------------------------------------
(* Selection by the debug runner *)

\* the argument is a fragment of some scraper's name
NamesSomeScraper(arg) ==
    \E k \in 1..Len(ScraperFns) : includes(toLowerCase(ScraperFns[k]), arg)

\* C26: called with a region code the debug runner runs every scraper of
\* that region, called with a fragment of a mountain's name it runs the
\* scrapers of that name, and it exits with status 1 only when the argument
\* is neither a region code nor a fragment of any scraper's name
C26_DebugSelects ==
    (debug # NoValue /\ debug.at # "main" /\ debug.arg # JUndef) =>
        /\ debug.arg.s \in RegionCodes => debug.matching = RegionScrapers(debug.arg.s)
        /\ debug.at = "exit1" =>
              (debug.arg.s \notin RegionCodes /\ ~NamesSomeScraper(debug.arg.s))
        /\ (debug.arg.s \notin RegionCodes /\ NamesSomeScraper(debug.arg.s)) =>
              /\ debug.matching # <<>>
              /\ \A k \in 1..Len(debug.matching) :
                     includes(toLowerCase(debug.matching[k]), debug.arg.s)

-----------------------------------------------------------------------------
(* The state machine of an adapter *)

\* the record carries nothing but name, updatedAt and source
IsDegraded(s) == s.t = "fulfilled" /\ DOMAIN s.value = {"name", "updatedAt", "source"}

\* unit i leaves its position in this step
Leaves(i, positions) == pc[i] \in positions /\ pc'[i] # pc[i]

\* C27 as claimed: a primary response that was received (2xx) and then fails
\* in extraction sends the adapter straight to its degraded record; the
\* fallback fetch is entered only from a failed fetch of the primary
C27_FallbackOnlyFromFetch ==
    [][variant = "resort" =>
          \A i \in Units :
              /\ Leaves(i, {"ReadingPrimary"}) => pc'[i] = "Settled"
              /\ (pc'[i] = "FetchingFallback" /\ pc[i] # pc'[i]) => pc[i] = "FetchingPrimary"]_vars

\* C27: an adapter goes NotStarted -> Fetching(primary) -> Parsing and ends
\* Normalized or Degraded; every failure of the primary attempt, of the fetch
\* (network error, abort, non-2xx) as of the parsing (unreadable or malformed
\* body, extraction throwing), enters the fallback fetch when the adapter has
\* one and the degraded record when it has none; a failure of the fallback
\* attempt ends in the degraded record
C27_FallbackFromAnyFailure ==
    [][variant = "resort" =>
          \A i \in Units :
              LET fn == ALL_SCRAPERS[i]
                  failed == got'[i].class \in FailureClasses
              IN  /\ Leaves(i, {"NotStarted"}) => pc'[i] = "FetchingPrimary"
                  /\ (Leaves(i, {"FetchingPrimary"}) /\ ~failed) => pc'[i] = "ReadingPrimary"
                  /\ (Leaves(i, {"FetchingFallback"}) /\ ~failed) => pc'[i] = "ReadingFallback"
                  /\ (Leaves(i, {"ReadingPrimary", "ReadingFallback"}) /\ ~failed) =>
                        /\ pc'[i] = "Settled"
                        /\ settled'[i].t = "fulfilled"
                        /\ "status" \in DOMAIN settled'[i].value
                  /\ (Leaves(i, {"FetchingPrimary", "ReadingPrimary"}) /\ failed) =>
                        IF HasFallback(fn)
                        THEN pc'[i] = "FetchingFallback" /\ fetches'[i].fallback = 1
                        ELSE pc'[i] = "Settled" /\ IsDegraded(settled'[i])
                  /\ (Leaves(i, {"FetchingFallback", "ReadingFallback"}) /\ failed) =>
                        pc'[i] = "Settled" /\ IsDegraded(settled'[i])]_vars

\* killington's JSON endpoint answered 2xx with a malformed body and the
\* adapter is fetching its fallback page
C27_Witness ==
    /\ variant = "resort"
    /\ \E i \in Units :
          /\ ALL_SCRAPERS[i] = "killington"
          /\ pc[i] = "FetchingFallback"
          /\ got[i].class = "parse"
          /\ got[i].body = Malformed
          /\ fetches[i].fallback = 1

-----------------------------------------------------------------------------
(* What a record tells about the failure *)

\* the record adapter i returns after a NetworkError of its last attempt
NetworkErrorRecord(i) ==
    DegradedRecord(ALL_SCRAPERS[i],
                   IF HasFallback(ALL_SCRAPERS[i]) THEN FallbackUrl(ALL_SCRAPERS[i])
                   ELSE Url(ALL_SCRAPERS[i]))

\* the last response unit i received did not contain the expected structure
ParseError(i) ==
    \/ got[i].class = "parse"
    \/ got[i].class = "ok" /\ got[i].body \in {DocEmpty, JObj(<<>>)}

\* C28: for a given adapter the record returned after a NetworkError and the
\* record returned after a ParseError are equal in every field but
\* updatedAt
C28_FailureClassHidden ==
    variant = "resort" =>
        \A i \in Units :
            pc[i] = "Settled" =>
                /\ got[i].class \in NetFailures =>
                      SansTime(settled[i].value) = SansTime(NetworkErrorRecord(i))
                /\ ParseError(i) =>
                      SansTime(settled[i].value) = SansTime(NetworkErrorRecord(i))

-----------------------------------------------------------------------------
(* Absent fields *)

\* the keys of a record as serialised: JSON.stringify drops undefined values
SerialKeys(rec) == {k \in DOMAIN rec : rec[k] # JUndef}

\* C29: the records of a snapshot follow one convention for absent optional
\* fields: all of them have the same key set (absent fields are explicit
\* nulls), or none of them has a null-valued key (absent fields are omitted)
C29_OneConvention ==
    snapshot # NoValue =>
        LET ms == snapshot.mountains
        IN  \/ \A i, j \in 1..Len(ms) : SerialKeys(ms[i]) = SerialKeys(ms[j])
            \/ \A i \in 1..Len(ms) : \A k \in SerialKeys(ms[i]) : ms[i][k] # JNull

\* the SnoCountry records all have the key set of parseRecord's literal
SnoKeysUniform ==
    (snapshot # NoValue /\ variant = "sno") =>
        \A i, j \in 1..Len(snapshot.mountains) :
            DOMAIN snapshot.mountains[i] = DOMAIN snapshot.mountains[j]

-----------------------------------------------------------------------------
(* Content that stops a run *)

\* C30: whatever JSON the state feeds return, once all of them have settled
\* the SnoCountry runAllScrapers fulfils with a snapshot: an array holding
\* null or non-object elements, or a record with a non-string name, costs at
\* most the affected record
C30_ContentNeverFailsRun ==
    (variant = "sno" /\ AllSettled /\ hpc \in {"Saving", "Done"}) =>
        /\ snapshot # NoValue
        /\ ("status" \in DOMAIN response => response.status # 500)

-----------------------------------------------------------------------------
(* A run that rejects *)

\* the units ran and what they delivered makes runAllScrapers throw
RunRejects == variant = "sno" /\ AllSettled /\ SnoRaises

\* C31: when runAllScrapers rejects, the trigger answers 500 with ok: false
\* and the message of the error, setData is not called and the snapshot
\* persisted before is left as it was
C31_RejectedRunIs500 ==
    (RunRejects /\ hpc # "Scraping") =>
        /\ hpc = "Done"
        /\ response = [status |-> 500, ok |-> FALSE, error |-> JText("TypeError")]
        /\ snapshot = NoValue
        /\ writes = 0
        /\ store = previous

\* a run rejected while the store held the snapshot of an earlier run
C31_Witness ==
    /\ RunRejects
    /\ hpc = "Done"
    /\ response.status = 500
    /\ previous # NoValue
    /\ store = previous

-----------------------------------------------------------------------------
(* Order of the writes of overlapping invocations *)

\* C32: whatever the interleaving of two or more concurrent invocations, the
\* scrapedAt of the persisted snapshot never decreases from one write to the
\* next
C32_ScrapedAtNeverDecreases ==
    [][(store # NoValue /\ store' # NoValue) => store'.scrapedAt.v >= store.scrapedAt.v]_vars

-----------------------------------------------------------------------------
(* Expiry of the persisted snapshot *)

\* the age of what getData returns, in units of 12 hours
Age == clock - getData.storedAt.v

\* C33 as claimed: whichever backend is active, getData never returns a
\* snapshot whose storedAt is more than 36 hours in the past
C33_ExpiresOnEveryBackend == getData # JNull => Age <= Ttl

\* the local file is never removed and never emptied by the passing of time
LocalKeeps ==
    (backend.kind = "local" /\ store # NoValue) => store' # NoValue

\* C33: on the KV backend every persisted snapshot carries a 36-hour expiry
\* counted from its write, and getData never returns one written 36 hours
\* ago or earlier; on the local file backend a snapshot carries no expiry
\* and getData returns the last one written however old it is
C33_ExpiresOnKvOnly ==
    /\ []((backend.kind = "kv" /\ getData # JNull) =>
              (backend.expires /\ backend.deadline = getData.storedAt.v + Ttl /\ Age < Ttl))
    /\ []((backend.kind = "local" /\ getData # JNull) => ~backend.expires)
    /\ [][LocalKeeps]_vars

\* a snapshot on the KV backend in the last 12 hours of its life, after one
\* written earlier was answered to a GET
C33_Witness ==
    /\ backend.kind = "kv"
    /\ getData # JNull
    /\ Age = Ttl - 1
    /\ writes = 1
    /\ qresponse # NoValue
    /\ qresponse.status = 200

-----------------------------------------------------------------------------
(* The normalising functions *)

\* a call of parseRecord that returned a record
Parsed == call # NoValue /\ call.fn = "parseRecord" /\ call.out # NoValue /\ call.out.t = "obj"

\* the status value of the record handed to parseRecord
StatusValue == FirstOf(call.arg, <<"resort_status", "resortStatus">>)

\* the value is a number, or a string that spells one
SpellsNumber(v) == v.t = "num" \/ (v.t = "str" /\ "s" \in DOMAIN v /\ v.s # <<>> /\ ToNumber(v).t = "num")

LeadingDigits(v) ==
    IF v.t = "str" /\ "s" \in DOMAIN v THEN DigitPrefix(Unsigned(SkipBlanks(v.s))) ELSE <<>>

Returned == call # NoValue /\ call.out # NoValue /\ call.out.t = "obj"

NumericKeys ==
    {"base", "summit", "newSnow24", "newSnow48", "newSnow7d", "season",
     "trailsOpen", "trailsTotal", "liftsOpen", "liftsTotal"}

\* the values the provider reported in the call, with the field each one feeds
Reported ==
    CASE call.fn = "parseRecord" ->
            {<<"base", Prop(call.arg, "base_depth")>>, <<"liftsOpen", Prop(call.arg, "open_lifts")>>}
      [] call.fn = "killington" ->
            {<<"base", Prop(Prop(call.arg, "snowReport"), "baseDepth")>>,
             <<"liftsOpen", Prop(Prop(call.arg, "snowReport"), "openLifts")>>}
      [] call.fn = "tremblant" ->
            {<<"base", Prop(Prop(call.arg, "conditions"), "baseDepthCm")>>,
             <<"summit", Prop(Prop(call.arg, "conditions"), "summitDepthCm")>>,
             <<"liftsOpen", Prop(Prop(call.arg, "conditions"), "openLifts")>>}
      [] OTHER ->
            {<<"base", SelText(call.arg, "base")>>, <<"trailsOpen", SelText(call.arg, "trailsOpen")>>}

\* the provider reported zero
IsZero(v) == v = JNum(0) \/ v = JStr(<<"0">>)

\* C35: a value of 0 reported by the provider appears in the record as 0, and
\* no numeric field of a record is NaN
C35_ZeroKeptNeverNaN ==
    Returned =>
        /\ \A k \in NumericKeys \cap DOMAIN call.out.f : call.out.f[k].t # "nan"
        /\ \A p \in Reported :
              IsZero(p[2]) => call.out.f[p[1]].t = "num" /\ call.out.f[p[1]].v = 0

\* q is the whole number nearest to cm / 2.54
NearestInch(cm, q) == 2 * Abs(100 * cm.v - 254 * Scale(cm) * q) <= 254 * Scale(cm)

\* the depth is the centimetre value converted to whole inches
InInches(cm, depth) == depth.t = "num" /\ depth.e = 0 /\ NearestInch(cm, depth.v)

\* the centimetre value the page of leMassif shows as base depth
PageCm == parseFloat([t |-> "str", s |-> StripNonNumeric(SelText(call.arg, "base").s)])

\* C36: the depth of a centimetre-reporting adapter (tremblant, leMassif) is
\* the centimetre value divided by 2.54 and rounded to the nearest inch, and
\* an absent centimetre value gives an absent depth
C36_CentimetresToInches ==
    /\ (Returned /\ call.fn = "tremblant") =>
          LET d == Prop(call.arg, "conditions")
          IN  /\ Prop(d, "baseDepthCm").t = "num" => InInches(Prop(d, "baseDepthCm"), call.out.f.base)
              /\ Prop(d, "summitDepthCm").t = "num" => InInches(Prop(d, "summitDepthCm"), call.out.f.summit)
              /\ (~NotNullish(Prop(d, "baseDepthCm")) /\ ~NotNullish(Prop(d, "baseDepth"))) =>
                    call.out.f.base = JNull
              /\ ~NotNullish(Prop(d, "summitDepthCm")) => call.out.f.summit = JNull
    /\ (Returned /\ call.fn = "leMassif") =>
          /\ PageCm.t = "num" => InInches(PageCm, call.out.f.base)
          /\ SelText(call.arg, "base") = JStr(<<>>) => call.out.f.base = JNull

CountKeys == {"trailsOpen", "trailsTotal", "liftsOpen", "liftsTotal"}

\* absent, or a whole number that is not negative
AbsentOrCount(v) == v \in {JNull, JUndef} \/ (v.t = "num" /\ v.e = 0 /\ v.v >= 0)

\* C37: trailsOpen, trailsTotal, liftsOpen and liftsTotal of a record are each
\* absent or a non-negative integer, whatever the upstream payload contains
C37_CountsNonNegative ==
    Returned => \A k \in CountKeys \cap DOMAIN call.out.f : AbsentOrCount(call.out.f[k])

====
